---- MODULE Spec2Model ----
(***************************************************************************)
(* The three notebook scripts of the repository that load tabular data,    *)
(* assign synthetic identifiers, join, and persist:                        *)
(*   "library"     src/unnamed/part_000 (data.csv, publisher.csv ->        *)
(*                 library.db through sqlite3 INSERT loops)                *)
(*   "relational"  docs/handson/04 (venues, publications ->                *)
(*                 publications.db through DataFrame.to_sql)               *)
(*   "graph"       docs/handson/05 (venues, publications -> rdflib Graph   *)
(*                 -> SPARQLUpdateStore)                                   *)
(* One behaviour runs one script, cell by cell, and may run it again.      *)
(***************************************************************************)
EXTENDS Integers, Sequences, FiniteSets, TLC

VARIABLES
    script,            \* which notebook this behaviour executes
    pc,                \* position in the script
    rerun,             \* FALSE in the first execution, TRUE in a re-execution
    files,             \* the CSV files on disk: path -> [columns, rows]
    error,             \* the exception that stopped the run, or "none"
    db,                \* the committed content of the SQLite file
    txn,               \* rows inserted through the connection, not yet committed
    connection,        \* what happened to the connection / store of this run
    i,                 \* loop counter of the running for-loop
    bibliographic_df, publishers_df, merged_df,
    venues, venues_ids, journals, books, df_joined,
    publications, journal_articles, book_chapters,
    my_graph, venue_internal_id, triplestore,
    ids,               \* history: identifiers assigned so far by this execution
    prev_ids,          \* history: identifiers assigned by the previous execution
    prev_dest,         \* history: what the stores held when an execution last completed
    venue_1,           \* handson/02: the Venue object, its fields id and name
    heap,              \* handson/02: the Python objects the session has created
    result,            \* handson/02: what the last method call returned
    call,              \* handson/02 history: the last call and the set before it
    netflix_row,       \* Netflix notebook: the row handed to convert_to_minutes
    returned           \* Netflix notebook: what convert_to_minutes(row) returned

common == <<script, rerun, files, prev_dest>>
libFrames == <<bibliographic_df, publishers_df, merged_df>>
relFrames == <<venues_ids, journals, books, df_joined, journal_articles,
              book_chapters>>
csvFrames == <<venues, publications>>
graphVars == <<my_graph, venue_internal_id, triplestore>>
sqlVars == <<db, txn, connection>>
vars == <<script, pc, rerun, files, error, db, txn, connection, i,
          bibliographic_df, publishers_df, merged_df,
          venues, venues_ids, journals, books, df_joined,
          publications, journal_articles, book_chapters,
          my_graph, venue_internal_id, triplestore, ids, prev_ids, prev_dest,
          venue_1, heap, result, call, netflix_row, returned>>
classVars == <<venue_1, heap, result, call>>
netflixVars == <<netflix_row, returned>>
elsewhere == <<classVars, netflixVars>>
pipelineVars == <<script, pc, rerun, files, error, db, txn, connection, i,
                 bibliographic_df, publishers_df, merged_df,
                 venues, venues_ids, journals, books, df_joined,
                 publications, journal_articles, book_chapters,
                 my_graph, venue_internal_id, triplestore, ids, prev_ids,
                 prev_dest>>

(***************************************************************************)
(* Bounds of the model.                                                    *)
(***************************************************************************)
MaxRows == 2           \* most data rows in one CSV file
MaxRecords == 4        \* most data rows in the two CSV files of a script together

(***************************************************************************)
(* Scalars.  A cell of a CSV file is its text.  pandas' missing value and  *)
(* SQLite's NULL are values distinct from every text.                      *)
(***************************************************************************)
NaN == "<NaN>"
NULL == "<NULL>"

\* read_csv with the default keep_default_na=True: an empty cell (and the
\* texts pandas lists as NA) is read as NaN.
\* With keep_default_na=False every cell keeps its text.
NaValues == {"", "NA", "NaN", "null"}
ReadCell(text, keep_default_na) ==
    IF keep_default_na /\ text \in NaValues THEN NaN ELSE text

\* str(i) of a non-negative int: its decimal digits.
Digit(d) ==
    CASE d = 0 -> "0" [] d = 1 -> "1" [] d = 2 -> "2" [] d = 3 -> "3"
      [] d = 4 -> "4" [] d = 5 -> "5" [] d = 6 -> "6" [] d = 7 -> "7"
      [] d = 8 -> "8" [] d = 9 -> "9"

RECURSIVE str(_)
str(n) == IF n < 10 THEN Digit(n) ELSE str(n \div 10) \o Digit(n % 10)

(***************************************************************************)
(* Data frames: the column names, the index labels and the rows, each row  *)
(* a record from column name to value.                                     *)
(***************************************************************************)
NoFrame == [columns |-> {}, index |-> <<>>, rows |-> <<>>]

len(df) == Len(df.rows)

\* The positions 1..n, as a sequence.
Positions(n) == [k \in 1..n |-> k]

\* dtype={..., "publication year": "int", ...}: the one column read as a
\* number (renamed publicationYear later); every other column holds text.
IntColumns == {"publication year", "publicationYear"}

\* The default index of a frame just read is the RangeIndex 0..n-1.
RangeIndexStart == 0

\* pandas.read_csv(path): one row per data line, RangeIndex 0..n-1.
read_csv(path, keep_default_na) ==
    LET f == files[path]
    IN  [columns |-> f.columns,
         index   |-> [k \in 1..Len(f.rows) |-> RangeIndexStart + k - 1],
         rows    |-> [k \in 1..Len(f.rows) |->
                        [c \in f.columns |->
                            IF c \in IntColumns THEN f.rows[k][c]
                            ELSE ReadCell(f.rows[k][c], keep_default_na)]]]

\* df[name] = values (a list as long as the frame): a new column.
SetColumn(df, name, values) ==
    [df EXCEPT !.columns = @ \cup {name},
               !.rows = [k \in 1..Len(df.rows) |->
                           [c \in df.columns \cup {name} |->
                              IF c = name THEN values[k] ELSE df.rows[k][c]]]]

\* Series(values): the values under a RangeIndex of their own.
Series(values) ==
    [index  |-> [k \in 1..Len(values) |-> RangeIndexStart + k - 1],
     values |-> values]

\* df.insert(loc, name, series): a new column; each row takes the value the
\* series holds under the row's index label, or a missing value.
insert(df, name, series) ==
    LET At(label) ==
            LET hit == {j \in 1..Len(series.index) : series.index[j] = label}
            IN  IF hit = {} THEN NaN ELSE series.values[CHOOSE j \in hit : TRUE]
    IN  SetColumn(df, name, [k \in 1..Len(df.rows) |-> At(df.index[k])])

\* The list built by
\*   for idx, row in df.iterrows(): ids.append(prefix + str(idx))
IterIds(df, prefix) == [k \in 1..Len(df.rows) |-> prefix \o str(df.index[k])]

\* df[[c1, c2, ...]]: the sub-frame of the named columns.
Columns(df, cols) ==
    [df EXCEPT !.columns = cols,
               !.rows = [k \in 1..Len(df.rows) |-> [c \in cols |-> df.rows[k][c]]]]

\* df.rename(columns={old: new, ...}); names not in the frame are ignored.
rename(df, old, new) ==
    IF old \notin df.columns THEN df
    ELSE LET cols == (df.columns \ {old}) \cup {new}
         IN  [df EXCEPT !.columns = cols,
                        !.rows = [k \in 1..Len(df.rows) |->
                                    [c \in cols |->
                                       IF c = new THEN df.rows[k][old]
                                       ELSE df.rows[k][c]]]]

\* No filter: every row, whatever its type.
query_all(df, column, value) == df

\* df.query("type == '<value>'"): the rows of that type, index labels kept.
query(df, column, value) ==
    LET pos == SelectSeq(Positions(Len(df.rows)),
                         LAMBDA k : df.rows[k][column] = value)
    IN  [df EXCEPT !.index = [k \in 1..Len(pos) |-> df.index[pos[k]]],
                   !.rows  = [k \in 1..Len(pos) |-> df.rows[pos[k]]]]

(***************************************************************************)
(* Synthetic identifiers.                                                  *)
(***************************************************************************)
\* range(n) counts from 0.
RangeStartOne == 0 + 1
RangeStartFromStore ==
    IF db.exists /\ "Publisher" \in DOMAIN db.tables
    THEN Len(db.tables["Publisher"].rows) ELSE 0
RangeStart == 0

\* [prefix + str(i) for i in range(len(df))]
IdList(prefix, n) == [k \in 1..n |-> prefix \o str(RangeStart + k - 1)]

\* df['unique_id'] = ['<prefix>' + str(i) for i in range(len(df))]
AssignIdentifiers(df, prefix) ==
    SetColumn(df, "unique_id", IdList(prefix, len(df)))

BiblioPrefix == "biblio-"
PublisherPrefix == "publisher-"

(***************************************************************************)
(* pandas.merge(left, right, left_on=, right_on=, how=).                   *)
(***************************************************************************)
\* Positions of the right rows whose key equals the key of left row l, in
\* right order.  pandas matches a missing key with a missing key.
Matches(left, right, left_on, right_on, l) ==
    SelectSeq(Positions(Len(right.rows)),
              LAMBDA r : right.rows[r][right_on] = left.rows[l][left_on])

\* The (left position, right position) pairs of the joined rows, in left
\* order; right position 0 stands for "no right row" (how='left' only).
RECURSIVE JoinPairs(_, _, _, _, _, _)
JoinPairs(left, right, left_on, right_on, how, l) ==
    IF l > Len(left.rows) THEN <<>>
    ELSE LET m == Matches(left, right, left_on, right_on, l)
             here == IF m = <<>>
                     THEN (IF how = "left" THEN <<(<<l, 0>>)>> ELSE <<>>)
                     ELSE [k \in 1..Len(m) |-> <<l, m[k]>>]
         IN  here \o JoinPairs(left, right, left_on, right_on, how, l + 1)

\* Column naming of the result: a column present on both sides that is not
\* the shared join key gets the suffix _x (left) or _y (right).
Overlap(left, right, left_on, right_on) ==
    (left.columns \cap right.columns)
        \ (IF left_on = right_on THEN {left_on} ELSE {})

LeftName(c, ov) == IF c \in ov THEN c \o "_x" ELSE c
RightName(c, ov) == IF c \in ov THEN c \o "_y" ELSE c

merge(left, right, left_on, right_on, how) ==
    LET pairs == JoinPairs(left, right, left_on, right_on, how, 1)
        ov    == Overlap(left, right, left_on, right_on)
        rcols == right.columns \ (IF left_on = right_on THEN {right_on} ELSE {})
        lnames == {LeftName(c, ov) : c \in left.columns}
        rnames == {RightName(c, ov) : c \in rcols}
        Row(p) ==
            [n \in lnames \cup rnames |->
                IF n \in lnames
                THEN left.rows[p[1]][CHOOSE c \in left.columns : LeftName(c, ov) = n]
                ELSE IF p[2] = 0 THEN NaN
                ELSE right.rows[p[2]][CHOOSE c \in rcols : RightName(c, ov) = n]]
    IN  [columns |-> lnames \cup rnames,
         index   |-> [k \in 1..Len(pairs) |-> k - 1],
         rows    |-> [k \in 1..Len(pairs) |-> Row(pairs[k])],
         \* which input rows each joined row was taken from (their index
         \* labels; -1 for none): merge computes these and drops them
         left_index  |-> [k \in 1..Len(pairs) |-> left.index[pairs[k][1]]],
         right_index |-> [k \in 1..Len(pairs) |->
                            IF pairs[k][2] = 0 THEN -1
                            ELSE right.index[pairs[k][2]]]]

(***************************************************************************)
(* Python dict.                                                            *)
(***************************************************************************)
EmptyDict == [k \in {} |-> NULL]

DictSetKeepFirst(d, key, value) ==
    [k \in DOMAIN d \cup {key} |-> IF k \in DOMAIN d THEN d[k] ELSE value]

\* d[key] = value: a new key is added, an existing key is overwritten.
DictSet(d, key, value) ==
    [k \in DOMAIN d \cup {key} |-> IF k = key THEN value ELSE d[k]]

(***************************************************************************)
(* The SQLite file.  A table holds its column names, its constraints and   *)
(* its committed rows.  Rows inserted through a connection stay in txn     *)
(* until that connection commits.                                          *)
(***************************************************************************)
NoDb == [exists |-> FALSE, tables |-> EmptyDict]
EmptyDb == [exists |-> TRUE, tables |-> EmptyDict]

\* CREATE TABLE Publisher (id TEXT PRIMARY KEY, name TEXT NOT NULL,
\*                         unique_id TEXT NOT NULL)
PublisherTable ==
    [columns |-> {"id", "name", "unique_id"},
     primary_key |-> {"id"},
     not_null |-> {"name", "unique_id"},
     rows |-> <<>>]

\* CREATE TABLE BibliographicResource (id TEXT PRIMARY KEY,
\*     title TEXT NOT NULL, type TEXT, publisher TEXT,
\*     unique_id TEXT NOT NULL, FOREIGN KEY (publisher) REFERENCES Publisher(id))
\* SQLite enforces a FOREIGN KEY clause only under PRAGMA foreign_keys=ON,
\* which the script never issues.
BibliographicResourceTable ==
    [columns |-> {"id", "title", "type", "publisher", "unique_id"},
     primary_key |-> {"id"},
     not_null |-> {"title", "unique_id"},
     rows |-> <<>>]

BindEmptyText(value) == IF value = NaN THEN "" ELSE value
BindUnchanged(value) == value

\* sqlite3 binds a float NaN parameter as NULL and a str as TEXT.
Bind(value) == IF value = NaN THEN NULL ELSE value

\* The rows of a table as the connection sees them: committed, then pending.
TxnRows(table) ==
    LET mine == SelectSeq(txn, LAMBDA e : e[1] = table)
    IN  [k \in 1..Len(mine) |-> mine[k][2]]

VisibleRows(table) == db.tables[table].rows \o TxnRows(table)

InsertAcceptedWithoutKey(table, row) ==
    \A c \in db.tables[table].not_null : row[c] # NULL

\* Whether INSERT INTO table VALUES row passes the table's constraints.
\* A TEXT PRIMARY KEY column of an ordinary table accepts NULL, and NULLs
\* never collide.
InsertAccepted(table, row) ==
    LET t == db.tables[table]
        seen == VisibleRows(table)
    IN  /\ \A c \in t.not_null : row[c] # NULL
        /\ \A c \in t.primary_key :
              \/ row[c] = NULL
              \/ \A k \in 1..Len(seen) : seen[k][c] # row[c]

\* The parameter tuple of an INSERT: the named cells of the row, bound.
InsertValues(row, cols) == [c \in cols |-> Bind(row[c])]

\* connection.commit(): the pending rows become part of the file.
Committed ==
    [db EXCEPT !.tables =
        [t \in DOMAIN db.tables |->
            [db.tables[t] EXCEPT !.rows = @ \o TxnRows(t)]]]

(***************************************************************************)
(* Inputs.                                                                 *)
(***************************************************************************)
\* The files of at most n data rows, no row written twice, over the rows S.
SeqsUpTo(S, n) ==
    { rows \in UNION {[1..k -> S] : k \in 0..n} :
        \A a, b \in 1..Len(rows) : a # b => rows[a] # rows[b] }

CsvFile(cols, rows) == [columns |-> cols, rows |-> rows, readable |-> TRUE]

\* A path that cannot be read: no file is there.
NoFile == [columns |-> {}, rows |-> <<>>, readable |-> FALSE]

\* The file without one of its columns.
Without(file, column) ==
    [file EXCEPT !.columns = @ \ {column},
                 !.rows = [k \in 1..Len(file.rows) |->
                             [c \in file.columns \ {column} |-> file.rows[k][c]]]]

ReadableAlways(path) == path = path

\* read_csv raises FileNotFoundError for a path that cannot be read.
Readable(path) == files[path].readable

\* df[column] and row[column] raise KeyError for a column the frame lacks.
HasColumns(df, columns) == columns \subseteq df.columns

\* Rows of data.csv (id, title, type, publisher).
DataRows ==
    { [id |-> "doi:1", title |-> "T1", type |-> "dataset", publisher |-> "crossref:1"],
      [id |-> "doi:2", title |-> "T2", type |-> "",        publisher |-> "crossref:2"],
      [id |-> "doi:1", title |-> "T3", type |-> "dataset", publisher |-> ""],
      [id |-> "doi:3", title |-> "",   type |-> "dataset", publisher |-> "crossref:9"] }

\* Rows of publisher.csv (id, name).
PublisherRows ==
    { [id |-> "crossref:1", name |-> "N1"],
      [id |-> "crossref:2", name |-> "N2"],
      [id |-> "crossref:1", name |-> "N3"],
      [id |-> "",           name |-> "N4"] }

LibraryFiles ==
    { [f \in {"data.csv", "publisher.csv"} |->
          IF f = "data.csv"
          THEN CsvFile({"id", "title", "type", "publisher"}, dp[1])
          ELSE CsvFile({"id", "name"}, dp[2])]
      : dp \in {x \in SeqsUpTo(DataRows, MaxRows) \X SeqsUpTo(PublisherRows, MaxRows) :
                   Len(x[1]) + Len(x[2]) <= MaxRecords} }

\* The inputs with a defect: one path that cannot be read, or data.csv
\* without its column publisher or title.
LibraryDefectFiles ==
    {[f EXCEPT !["data.csv"] = NoFile] : f \in LibraryFiles}
       \cup {[f EXCEPT !["publisher.csv"] = NoFile] : f \in LibraryFiles}
       \cup {[f EXCEPT !["data.csv"] = Without(@, c)] :
                f \in LibraryFiles, c \in {"publisher", "title"}}

NoIds == << <<>>, <<>> >>

ColumnValues(df, c) == [k \in 1..Len(df.rows) |-> df.rows[k][c]]

(***************************************************************************)
(* Script "library": src/unnamed/part_000, first notebook.                 *)
(***************************************************************************)
\* Exercise 1, steps 1-2.
L_ReadCsv ==
    /\ script = "library" /\ pc = "read_csv"
    /\ bibliographic_df' =
          IF Readable("data.csv") THEN read_csv("data.csv", TRUE)
          ELSE bibliographic_df
    /\ publishers_df' =
          IF Readable("data.csv") /\ Readable("publisher.csv")
          THEN read_csv("publisher.csv", TRUE)
          ELSE publishers_df
    /\ IF Readable("data.csv") /\ Readable("publisher.csv")
       THEN pc' = "unique_id" /\ error' = error
       ELSE pc' = "error" /\ error' = "FileNotFoundError"
    /\ UNCHANGED <<elsewhere, common, sqlVars, i, merged_df, csvFrames, relFrames,
                   graphVars, ids, prev_ids>>

\* Exercise 1, steps 3-4.
L_UniqueId ==
    /\ script = "library" /\ pc = "unique_id"
    /\ bibliographic_df' = AssignIdentifiers(bibliographic_df, BiblioPrefix)
    /\ publishers_df' = AssignIdentifiers(publishers_df, PublisherPrefix)
    /\ ids' = <<ColumnValues(bibliographic_df', "unique_id"),
                ColumnValues(publishers_df', "unique_id")>>
    /\ pc' = "merge"
    /\ UNCHANGED <<elsewhere, common, error, sqlVars, i, merged_df, csvFrames, relFrames,
                   graphVars, prev_ids>>

\* how='left'  # Keep all rows from bibliographic_df
LibraryHowInner == "inner"
LibraryHow == "left"

\* Exercise 2: merge, then rename.
L_Merge ==
    /\ script = "library" /\ pc = "merge"
    /\ IF HasColumns(bibliographic_df, {"publisher"})
          /\ HasColumns(publishers_df, {"id"})
       THEN /\ merged_df' =
                  rename(rename(rename(
                      merge(bibliographic_df, publishers_df, "publisher", "id",
                            LibraryHow),
                      "id_x", "bibliographic_id"), "id_y", "publisher_id"),
                      "name", "publisher_name")
            /\ pc' = "connect" /\ error' = error
       ELSE /\ merged_df' = merged_df
            /\ pc' = "error" /\ error' = "KeyError"
    /\ UNCHANGED <<elsewhere, common, sqlVars, i, bibliographic_df, publishers_df,
                   csvFrames, relFrames, graphVars, ids, prev_ids>>

\* Exercise 3, step 1: remove library.db if it exists, then connect, which
\* creates an empty file.
\* if os.path.exists('library.db'): os.remove('library.db')
os_remove_skipped(database) == database
os_remove(database) == NoDb

\* sqlite3.connect('library.db') opens the file, creating it when absent.
connect(database) == IF database.exists THEN database ELSE EmptyDb

L_Connect ==
    /\ script = "library" /\ pc = "connect"
    /\ db' = connect(os_remove(db))
    /\ txn' = <<>>
    /\ connection' = <<"connect">>
    /\ pc' = "create_tables"
    /\ UNCHANGED <<elsewhere, common, error, i, libFrames, csvFrames, relFrames,
                   graphVars, ids, prev_ids>>

\* Where the script goes when the loop over publishers_df / bibliographic_df
\* has no (more) rows.
AfterPublishers == IF len(bibliographic_df) = 0 THEN "commit" ELSE "insert_biblio"
\* The loops in the other order: Step 5 directly after the CREATE TABLEs.
AfterCreateChildFirst == IF len(bibliographic_df) = 0 THEN "commit" ELSE "insert_biblio"
AfterCreate == IF len(publishers_df) = 0 THEN AfterPublishers ELSE "insert_publisher"

\* Exercise 3, steps 2-3: the two CREATE TABLE statements, each executed
\* outside a transaction and so written to the file at once.
\* CREATE TABLE of a name the file already holds raises
\* sqlite3.OperationalError.
L_CreateTables ==
    /\ script = "library" /\ pc = "create_tables"
    /\ IF "Publisher" \in DOMAIN db.tables
       THEN /\ db' = db /\ i' = i
            /\ error' = "OperationalError"
            /\ pc' = "error"
       ELSE /\ db' = [db EXCEPT !.tables =
                         [t \in {"Publisher", "BibliographicResource"} |->
                             IF t = "Publisher" THEN PublisherTable
                             ELSE BibliographicResourceTable]]
            /\ i' = 1
            /\ error' = error
            /\ pc' = AfterCreate
    /\ UNCHANGED <<elsewhere, common, txn, connection, libFrames, csvFrames,
                   relFrames, graphVars, ids, prev_ids>>

\* One cursor.execute(INSERT ...) of a loop: the row is pending, or the
\* statement raises sqlite3.IntegrityError and the script stops there.
\* What the file holds after an INSERT through the connection: sqlite3
\* opens a transaction before the first INSERT, so nothing reaches the file
\* until commit().  (With isolation_level=None each row would be written at
\* once.)
file_after_autocommit(database, table, row) ==
    [database EXCEPT !.tables[table].rows = Append(@, row)]
file_after_insert(database, table, row) == database

ExecuteInsert(table, row, more, after) ==
    IF InsertAccepted(table, row)
    THEN /\ txn' = Append(txn, <<table, row>>)
         /\ db' = file_after_insert(db, table, row)
         /\ error' = error
         /\ i' = IF more THEN i + 1 ELSE 1
         /\ pc' = IF more THEN pc ELSE after
    ELSE /\ txn' = txn
         /\ db' = db
         /\ error' = "IntegrityError"
         /\ i' = i
         /\ pc' = "error"

\* Exercise 3, step 4: one iteration of the loop over publishers_df.
L_InsertPublisher ==
    /\ script = "library" /\ pc = "insert_publisher"
    /\ IF HasColumns(publishers_df, {"id", "name", "unique_id"})
       THEN ExecuteInsert("Publisher",
                          InsertValues(publishers_df.rows[i],
                                       {"id", "name", "unique_id"}),
                          i < len(publishers_df), AfterPublishers)
       ELSE txn' = txn /\ db' = db /\ i' = i /\ pc' = "error" /\ error' = "KeyError"
    /\ UNCHANGED <<elsewhere, common, connection, libFrames, csvFrames, relFrames,
                   graphVars, ids, prev_ids>>

\* Exercise 3, step 5: one iteration of the loop over bibliographic_df.
L_InsertBiblio ==
    /\ script = "library" /\ pc = "insert_biblio"
    /\ IF HasColumns(bibliographic_df,
                     {"id", "title", "type", "publisher", "unique_id"})
       THEN ExecuteInsert("BibliographicResource",
                          InsertValues(bibliographic_df.rows[i],
                                       {"id", "title", "type", "publisher",
                                        "unique_id"}),
                          i < len(bibliographic_df), "commit")
       ELSE txn' = txn /\ db' = db /\ i' = i /\ pc' = "error" /\ error' = "KeyError"
    /\ UNCHANGED <<elsewhere, common, connection, libFrames, csvFrames, relFrames,
                   graphVars, ids, prev_ids>>

\* connection.commit()
L_Commit ==
    /\ script = "library" /\ pc = "commit"
    /\ db' = Committed
    /\ txn' = <<>>
    /\ connection' = Append(connection, "commit")
    /\ pc' = "close"
    /\ UNCHANGED <<elsewhere, common, error, i, libFrames, csvFrames, relFrames,
                   graphVars, ids, prev_ids>>

\* connection.close()
L_Close ==
    /\ script = "library" /\ pc = "close"
    /\ connection' = Append(connection, "close")
    /\ pc' = "done"
    /\ UNCHANGED <<elsewhere, common, error, db, txn, i, libFrames, csvFrames, relFrames,
                   graphVars, ids, prev_ids>>

(***************************************************************************)
(* Inputs of the two hands-on notebooks: 01-venues.csv (id, name, type)    *)
(* and 01-publications.csv.                                                *)
(***************************************************************************)
VenueColumns == {"id", "name", "type"}
PublicationColumns ==
    {"doi", "title", "publication year", "publication venue", "type",
     "issue", "volume"}

VenueRows ==
    { [id |-> "v1", name |-> "J1", type |-> "journal"],
      [id |-> "v2", name |-> "B1", type |-> "book"],
      [id |-> "v1", name |-> "S1", type |-> "series"] }

PublicationRow(doi, title, year, venue, type, issue, volume) ==
    [c \in PublicationColumns |->
        CASE c = "doi" -> doi
          [] c = "title" -> title
          [] c = "publication year" -> year
          [] c = "publication venue" -> venue
          [] c = "type" -> type
          [] c = "issue" -> issue
          [] c = "volume" -> volume]

PublicationRows ==
    { PublicationRow("d1", "T1", 2020, "v1", "journal article", "1", "2"),
      PublicationRow("d2", "T2", 2021, "v2", "book chapter", "", ""),
      PublicationRow("d3", "T3", 2019, "v1", "journal article", "", "5"),
      PublicationRow("d4", "T4", 2018, "v9", "journal article", "7", ""),
      PublicationRow("d5", "T5", 2017, "v2", "proceedings paper", "", "") }

HandsOnFiles ==
    { [f \in {"01-venues.csv", "01-publications.csv"} |->
          IF f = "01-venues.csv"
          THEN CsvFile(VenueColumns, vp[1])
          ELSE CsvFile(PublicationColumns, vp[2])]
      : vp \in {x \in SeqsUpTo(VenueRows, MaxRows) \X SeqsUpTo(PublicationRows, MaxRows) :
                   Len(x[1]) + Len(x[2]) <= MaxRecords} }

\* The inputs with a defect: one path that cannot be read, or
\* 01-venues.csv without its column name.
HandsOnDefectFiles ==
    {[f EXCEPT !["01-venues.csv"] = NoFile] : f \in HandsOnFiles}
       \cup {[f EXCEPT !["01-publications.csv"] = NoFile] : f \in HandsOnFiles}
       \cup {[f EXCEPT !["01-venues.csv"] = Without(@, "name")] : f \in HandsOnFiles}

VenuePrefix == "venue-"
PublicationPrefixAsVenue == "venue-"
PublicationPrefix == "publication-"

(***************************************************************************)
(* Script "relational": docs/handson/04.                                   *)
(***************************************************************************)
\* merge(left, right, left_on=..., right_on=...) without how= is an inner
\* join.
DefaultHowLeft == "left"
DefaultHow == "inner"

\* Cell "Venue-Id table".
R_VenuesIds ==
    /\ script = "relational" /\ pc = "venues_ids"
    /\ IF ~Readable("01-venues.csv")
       THEN /\ UNCHANGED <<venues, venues_ids, ids>>
            /\ pc' = "error" /\ error' = "FileNotFoundError"
       ELSE IF ~HasColumns(read_csv("01-venues.csv", FALSE), {"id"})
       THEN /\ venues' = read_csv("01-venues.csv", FALSE)
            /\ UNCHANGED <<venues_ids, ids>>
            /\ pc' = "error" /\ error' = "KeyError"
       ELSE /\ venues' = read_csv("01-venues.csv", FALSE)
            /\ venues_ids' =
                  LET sub == Columns(venues', {"id"})
                  IN  insert(sub, "venueId", Series(IterIds(sub, VenuePrefix)))
            /\ ids' = <<ColumnValues(venues_ids', "venueId"), <<>> >>
            /\ pc' = "journals_query" /\ error' = error
    /\ UNCHANGED <<elsewhere, common, sqlVars, i, libFrames, publications,
                   journals, books, df_joined, journal_articles, book_chapters,
                   graphVars, prev_ids>>

\* journals = venues.query("type == 'journal'")
R_JournalsQuery ==
    /\ script = "relational" /\ pc = "journals_query"
    /\ IF HasColumns(venues, {"type"})
       THEN /\ journals' = query(venues, "type", "journal")
            /\ pc' = "journals_merge" /\ error' = error
       ELSE /\ journals' = journals
            /\ pc' = "error" /\ error' = "UndefinedVariableError"
    /\ UNCHANGED <<elsewhere, common, sqlVars, i, libFrames, csvFrames,
                   venues_ids, books, df_joined, journal_articles, book_chapters,
                   graphVars, ids, prev_ids>>

\* df_joined = merge(journals, venues_ids, left_on="id", right_on="id")
R_JournalsMerge ==
    /\ script = "relational" /\ pc = "journals_merge"
    /\ IF HasColumns(journals, {"id"})
       THEN /\ df_joined' = merge(journals, venues_ids, "id", "id", DefaultHow)
            /\ pc' = "journals_table" /\ error' = error
       ELSE /\ df_joined' = df_joined
            /\ pc' = "error" /\ error' = "KeyError"
    /\ UNCHANGED <<elsewhere, common, sqlVars, i, libFrames, csvFrames,
                   venues_ids, journals, books, journal_articles, book_chapters,
                   graphVars, ids, prev_ids>>

VenueTableRenumbered(joined) ==
    LET t == rename(Columns(joined, {"venueId", "name"}), "venueId", "internalId")
    IN  SetColumn(t, "internalId",
                  [k \in 1..len(t) |-> VenuePrefix \o str(k - 1)])

\* df_joined[["venueId", "name"]] with venueId renamed internalId.
VenueTable(joined) ==
    rename(Columns(joined, {"venueId", "name"}), "venueId", "internalId")

R_JournalsTable ==
    /\ script = "relational" /\ pc = "journals_table"
    /\ IF HasColumns(df_joined, {"venueId", "name"})
       THEN /\ journals' = VenueTable(df_joined)
            /\ pc' = "books" /\ error' = error
       ELSE /\ journals' = journals
            /\ pc' = "error" /\ error' = "KeyError"
    /\ UNCHANGED <<elsewhere, common, sqlVars, i, libFrames, csvFrames,
                   venues_ids, books, df_joined, journal_articles, book_chapters,
                   graphVars, ids, prev_ids>>

\* Cell "Data frame of books": query, merge, select and rename.
R_Books ==
    /\ script = "relational" /\ pc = "books"
    /\ IF ~HasColumns(venues, {"type"})
       THEN /\ UNCHANGED <<books, df_joined>>
            /\ pc' = "error" /\ error' = "UndefinedVariableError"
       ELSE IF ~HasColumns(venues, {"id"})
       THEN /\ books' = query(venues, "type", "book")
            /\ df_joined' = df_joined
            /\ pc' = "error" /\ error' = "KeyError"
       ELSE IF ~HasColumns(venues, {"name"})
       THEN /\ books' = query(venues, "type", "book")
            /\ df_joined' = merge(books', venues_ids, "id", "id", DefaultHow)
            /\ pc' = "error" /\ error' = "KeyError"
       ELSE /\ df_joined' = merge(query(venues, "type", "book"), venues_ids,
                                  "id", "id", DefaultHow)
            /\ books' = VenueTable(df_joined')
            /\ pc' = "publications" /\ error' = error
    /\ UNCHANGED <<elsewhere, common, sqlVars, i, libFrames, csvFrames,
                   venues_ids, journals, journal_articles, book_chapters,
                   graphVars, ids, prev_ids>>

\* Cell "Tables for publications": read, then the internalId column.
R_Publications ==
    /\ script = "relational" /\ pc = "publications"
    /\ IF Readable("01-publications.csv")
       THEN /\ publications' =
                  LET df == read_csv("01-publications.csv", FALSE)
                  IN  insert(df, "internalId",
                             Series(IterIds(df, PublicationPrefix)))
            /\ ids' = <<ids[1], ColumnValues(publications', "internalId")>>
            /\ pc' = "journal_articles" /\ error' = error
       ELSE /\ UNCHANGED <<publications, ids>>
            /\ pc' = "error" /\ error' = "FileNotFoundError"
    /\ UNCHANGED <<elsewhere, common, sqlVars, i, libFrames, venues, relFrames,
                   graphVars, prev_ids>>

PublicationTableNaturalKey(joined, cols) ==
    rename(rename(Columns(joined, (cols \ {"venueId"}) \cup {"publication venue"}),
                  "publication year", "publicationYear"),
           "publication venue", "publicationVenue")

\* The selection and renaming both publication cells end with.
PublicationTable(joined, cols) ==
    rename(rename(Columns(joined, cols),
                  "publication year", "publicationYear"),
           "venueId", "publicationVenue")

\* Cell "Data frame of journal articles".
R_JournalArticles ==
    /\ script = "relational" /\ pc = "journal_articles"
    /\ IF ~HasColumns(publications, {"type"})
       THEN /\ UNCHANGED <<journal_articles, df_joined>>
            /\ pc' = "error" /\ error' = "UndefinedVariableError"
       ELSE IF ~HasColumns(publications, {"publication venue"})
       THEN /\ journal_articles' = query(publications, "type", "journal article")
            /\ df_joined' = df_joined
            /\ pc' = "error" /\ error' = "KeyError"
       ELSE IF ~HasColumns(publications,
                           {"doi", "publication year", "title", "issue", "volume"})
       THEN /\ journal_articles' = query(publications, "type", "journal article")
            /\ df_joined' = merge(journal_articles', venues_ids,
                                  "publication venue", "id", DefaultHow)
            /\ pc' = "error" /\ error' = "KeyError"
       ELSE /\ df_joined' = merge(query(publications, "type", "journal article"),
                                  venues_ids, "publication venue", "id",
                                  DefaultHow)
            /\ journal_articles' =
                  PublicationTable(df_joined',
                      {"internalId", "doi", "publication year", "title", "issue",
                       "volume", "venueId"})
            /\ pc' = "book_chapters" /\ error' = error
    /\ UNCHANGED <<elsewhere, common, sqlVars, i, libFrames, csvFrames,
                   venues_ids, journals, books, book_chapters,
                   graphVars, ids, prev_ids>>

\* Cell "Data frame of book chapters".
R_BookChapters ==
    /\ script = "relational" /\ pc = "book_chapters"
    /\ IF ~HasColumns(publications, {"type"})
       THEN /\ UNCHANGED <<book_chapters, df_joined>>
            /\ pc' = "error" /\ error' = "UndefinedVariableError"
       ELSE IF ~HasColumns(publications, {"publication venue"})
       THEN /\ book_chapters' = query(publications, "type", "book chapter")
            /\ df_joined' = df_joined
            /\ pc' = "error" /\ error' = "KeyError"
       ELSE IF ~HasColumns(publications, {"doi", "publication year", "title"})
       THEN /\ book_chapters' = query(publications, "type", "book chapter")
            /\ df_joined' = merge(book_chapters', venues_ids,
                                  "publication venue", "id", DefaultHow)
            /\ pc' = "error" /\ error' = "KeyError"
       ELSE /\ df_joined' = merge(query(publications, "type", "book chapter"),
                                  venues_ids, "publication venue", "id",
                                  DefaultHow)
            /\ book_chapters' =
                  PublicationTable(df_joined',
                      {"internalId", "doi", "publication year", "title",
                       "venueId"})
            /\ pc' = "with_connect" /\ error' = error
    /\ UNCHANGED <<elsewhere, common, sqlVars, i, libFrames, csvFrames,
                   venues_ids, journals, books, journal_articles,
                   graphVars, ids, prev_ids>>

\* with connect("publications.db") as con: the file is created if absent,
\* loaded with what it holds otherwise.
R_WithConnect ==
    /\ script = "relational" /\ pc = "with_connect"
    /\ db' = IF db.exists THEN db ELSE EmptyDb
    /\ connection' = <<"connect">>
    /\ i' = 1
    /\ pc' = "to_sql"
    /\ UNCHANGED <<elsewhere, common, error, txn, libFrames, csvFrames, relFrames,
                   graphVars, ids, prev_ids>>

\* The five to_sql statements of the with block, in order.
ToSqlNames == <<"VenueId", "Journal", "Book", "JournalArticle", "BookChapter">>
ToSqlFrames == <<venues_ids, journals, books, journal_articles, book_chapters>>

to_sql_append(df, name, tables) ==
    DictSet(tables, name,
        [columns |-> df.columns,
         primary_key |-> {},
         not_null |-> {},
         rows |-> (IF name \in DOMAIN tables THEN tables[name].rows ELSE <<>>)
                  \o [k \in 1..Len(df.rows) |->
                        [c \in df.columns |->
                           IF c \in IntColumns THEN df.rows[k][c]
                           ELSE Bind(df.rows[k][c])]]])

\* df.to_sql(name, con, if_exists="replace", index=False): the table is
\* dropped if it exists and created from the frame's columns, the rows are
\* inserted and committed; the index is not written.
to_sql(df, name, tables) ==
    DictSet(tables, name,
        [columns |-> df.columns,
         primary_key |-> {},
         not_null |-> {},
         rows |-> [k \in 1..Len(df.rows) |->
                     [c \in df.columns |->
                        IF c \in IntColumns THEN df.rows[k][c]
                        ELSE Bind(df.rows[k][c])]]])

R_ToSql ==
    /\ script = "relational" /\ pc = "to_sql"
    /\ db' = [db EXCEPT !.tables = to_sql(ToSqlFrames[i], ToSqlNames[i], @)]
    /\ i' = i + 1
    /\ pc' = IF i = Len(ToSqlNames) THEN "with_exit" ELSE pc
    /\ UNCHANGED <<elsewhere, common, error, txn, connection, libFrames, csvFrames,
                   relFrames, graphVars, ids, prev_ids>>

\* Leaving the with block: sqlite3's Connection.__exit__ commits the open
\* transaction and returns; it does not close the connection.
R_WithExit ==
    /\ script = "relational" /\ pc = "with_exit"
    /\ connection' = Append(connection, "commit")
    /\ pc' = "done"
    /\ UNCHANGED <<elsewhere, common, error, db, txn, i, libFrames, csvFrames, relFrames,
                   graphVars, ids, prev_ids>>

(***************************************************************************)
(* Script "graph": docs/handson/05.  An RDF term is a URIRef or a Literal; *)
(* a graph holds each statement once, here in the order of first addition. *)
(***************************************************************************)
URIRef(iri) == <<"URIRef", iri>>
Literal(value) == <<"Literal", value>>

\* classes of resources
JournalArticle == URIRef("https://schema.org/ScholarlyArticle")
BookChapter == URIRef("https://schema.org/Chapter")
Journal == URIRef("https://schema.org/Periodical")
Book == URIRef("https://schema.org/Book")

\* attributes related to classes
doi == URIRef("https://schema.org/identifier")
publicationYear == URIRef("https://schema.org/datePublished")
title == URIRef("https://schema.org/name")
issue == URIRef("https://schema.org/issueNumber")
volume == URIRef("https://schema.org/volumeNumber")
identifier == URIRef("https://schema.org/identifier")
name == URIRef("https://schema.org/name")

\* relations among classes
publicationVenue == URIRef("https://schema.org/isPartOf")

RDF_type == URIRef("http://www.w3.org/1999/02/22-rdf-syntax-ns#type")

base_url_site == "https://comp-data.github.io/"
base_url == "https://comp-data.github.io/res/"

Range(seq) == {seq[k] : k \in 1..Len(seq)}

\* my_graph.add((s, p, o))
GraphAdd(g, triple) == IF triple \in Range(g) THEN g ELSE Append(g, triple)

RECURSIVE GraphAddAll(_, _)
GraphAddAll(g, triples) ==
    IF triples = <<>> THEN g
    ELSE GraphAddAll(GraphAdd(g, Head(triples)), Tail(triples))

\* my_graph = Graph()
G_NewGraph ==
    /\ script = "graph" /\ pc = "new_graph"
    /\ my_graph' = <<>>
    /\ pc' = "venues_read"
    /\ UNCHANGED <<elsewhere, common, error, sqlVars, i, libFrames, csvFrames, relFrames,
                   venue_internal_id, triplestore, ids, prev_ids>>

\* The venues cell up to its for statement.
G_VenuesRead ==
    /\ script = "graph" /\ pc = "venues_read"
    /\ venues' = read_csv("01-venues.csv", FALSE)
    /\ venue_internal_id' = EmptyDict
    /\ i' = 1
    /\ pc' = IF len(venues') = 0 THEN "publications_read" ELSE "venues_loop"
    /\ UNCHANGED <<elsewhere, common, error, sqlVars, libFrames, publications, relFrames,
                   my_graph, triplestore, ids, prev_ids>>

VenueTriplesWithoutId(subj, row) ==
    << <<subj, RDF_type, IF row["type"] = "journal" THEN Journal ELSE Book>>,
       <<subj, name, Literal(row["name"])>> >>

\* The statements one iteration of the venues loop adds for a row whose
\* subject is subj.
VenueTriples(subj, row) ==
    << <<subj, RDF_type, IF row["type"] = "journal" THEN Journal ELSE Book>>,
       <<subj, name, Literal(row["name"])>>,
       <<subj, identifier, Literal(row["id"])>> >>

\* One iteration of: for idx, row in venues.iterrows()
G_VenuesLoop ==
    /\ script = "graph" /\ pc = "venues_loop"
    /\ LET idx == venues.index[i]
           row == venues.rows[i]
           local_id == VenuePrefix \o str(idx)
           subj == URIRef(base_url \o local_id)
       IN  /\ venue_internal_id' = DictSet(venue_internal_id, row["id"], subj)
           /\ my_graph' = GraphAddAll(my_graph, VenueTriples(subj, row))
           /\ ids' = <<Append(ids[1], local_id), ids[2]>>
    /\ i' = IF i < len(venues) THEN i + 1 ELSE 1
    /\ pc' = IF i < len(venues) THEN pc ELSE "publications_read"
    /\ UNCHANGED <<elsewhere, common, error, sqlVars, libFrames, csvFrames, relFrames,
                   triplestore, prev_ids>>

\* The publications cell up to its for statement.
G_PublicationsRead ==
    /\ script = "graph" /\ pc = "publications_read"
    /\ publications' = read_csv("01-publications.csv", FALSE)
    /\ i' = 1
    /\ pc' = IF len(publications') = 0 THEN "store_open" ELSE "publications_loop"
    /\ UNCHANGED <<elsewhere, common, error, sqlVars, libFrames, venues, relFrames,
                   graphVars, ids, prev_ids>>

\* The statements one iteration of the publications loop adds before it
\* looks the venue up.
PublicationTriples(subj, row) ==
    (IF row["type"] = "journal article"
     THEN << <<subj, RDF_type, JournalArticle>>,
             <<subj, issue, Literal(row["issue"])>>,
             <<subj, volume, Literal(row["volume"])>> >>
     ELSE << <<subj, RDF_type, BookChapter>> >>)
    \o << <<subj, name, Literal(row["title"])>>,
          <<subj, identifier, Literal(row["doi"])>>,
          <<subj, publicationYear, Literal(str(row["publication year"]))>> >>

\* One iteration of: for idx, row in publications.iterrows().  The last
\* statement reads venue_internal_id[row["publication venue"]], which raises
\* KeyError for a venue no row of the venues file has.
G_PublicationsLoop ==
    /\ script = "graph" /\ pc = "publications_loop"
    /\ LET idx == publications.index[i]
           row == publications.rows[i]
           local_id == PublicationPrefix \o str(idx)
           subj == URIRef(base_url \o local_id)
           added == GraphAddAll(my_graph, PublicationTriples(subj, row))
           venue == row["publication venue"]
       IN  /\ ids' = <<ids[1], Append(ids[2], local_id)>>
           /\ IF venue \in DOMAIN venue_internal_id
              THEN /\ my_graph' = GraphAdd(added,
                          <<subj, publicationVenue, venue_internal_id[venue]>>)
                   /\ error' = error
                   /\ i' = IF i < len(publications) THEN i + 1 ELSE 1
                   /\ pc' = IF i < len(publications) THEN pc ELSE "store_open"
              ELSE /\ my_graph' = added
                   /\ error' = "KeyError"
                   /\ i' = i
                   /\ pc' = "error"
    /\ UNCHANGED <<elsewhere, common, sqlVars, libFrames, csvFrames, relFrames,
                   venue_internal_id, triplestore, prev_ids>>

\* store = SPARQLUpdateStore(); store.open((endpoint, endpoint))
G_StoreOpen ==
    /\ script = "graph" /\ pc = "store_open"
    /\ connection' = <<"open">>
    /\ i' = 1
    /\ pc' = IF my_graph = <<>> THEN "store_close" ELSE "upload"
    /\ UNCHANGED <<elsewhere, common, error, db, txn, libFrames, csvFrames, relFrames,
                   graphVars, ids, prev_ids>>

\* for triple in my_graph.triples((None, None, None)): whether the iteration
\* that handed out the k-th statement of g is followed by another one.
has_next_never(k, g) == FALSE
has_next(k, g) == k < Len(g)

\* One iteration of: for triple in my_graph.triples((None, None, None)):
\* store.add(triple) sends the statement to the endpoint, or raises when the
\* endpoint does not answer.
G_Upload ==
    /\ script = "graph" /\ pc = "upload"
    /\ \E answered \in BOOLEAN :
          IF answered
          THEN /\ triplestore' = triplestore \cup {my_graph[i]}
               /\ connection' = Append(connection, "add")
               /\ error' = error
               /\ i' = IF has_next(i, my_graph) THEN i + 1 ELSE 1
               /\ pc' = IF has_next(i, my_graph) THEN pc ELSE "store_close"
          ELSE /\ triplestore' = triplestore
               /\ connection' = connection
               /\ error' = "URLError"
               /\ i' = i
               /\ pc' = "error"
    /\ UNCHANGED <<elsewhere, common, db, txn, libFrames, csvFrames, relFrames,
                   my_graph, venue_internal_id, ids, prev_ids>>

\* store.close()
G_StoreClose ==
    /\ script = "graph" /\ pc = "store_close"
    /\ connection' = Append(connection, "close")
    /\ pc' = "done"
    /\ UNCHANGED <<elsewhere, common, error, db, txn, i, libFrames, csvFrames, relFrames,
                   graphVars, ids, prev_ids>>

(***************************************************************************)
(* docs/handson/02: class Venue.  A session constructs venue_1 and calls   *)
(* its methods; the caller may change the list getIds() handed out.        *)
(* Python objects live in heap, a sequence indexed by object identity;     *)
(* a variable or field holding an object holds its index.                  *)
(***************************************************************************)
MaxIdentifiers == 2    \* most items of the collection given to Venue(...)
MaxListLen == 4        \* longest list the caller grows a returned list to

\* The identifier strings of a session: the ISSN of the notebook, and one
\* upper-case and one lower-case string.
Identifiers == {"1531-6912", "B", "a"}
Names == {"Comparative and Functional Genomics"}

\* ord() of each character of a string.
CodePoints(string) ==
    CASE string = "1531-6912" -> <<49, 53, 51, 49, 45, 54, 57, 49, 50>>
      [] string = "B" -> <<66>>
      [] string = "a" -> <<97>>

\* Python values a method returns.
PyNone == [tag |-> "None", bool |-> FALSE, ref |-> 0, str |-> "", int |-> 0]
PyBool(b) == [tag |-> "bool", bool |-> b, ref |-> 0, str |-> "", int |-> 0]
PyRef(object) == [tag |-> "ref", bool |-> FALSE, ref |-> object, str |-> "", int |-> 0]
PyStr(string) == [tag |-> "str", bool |-> FALSE, ref |-> 0, str |-> string, int |-> 0]
PyInt(n) == [tag |-> "int", bool |-> FALSE, ref |-> 0, str |-> "", int |-> n]
\* An exception leaving the call instead of a value.
Raised(exception) ==
    [tag |-> "raise", bool |-> FALSE, ref |-> 0, str |-> exception, int |-> 0]
True == PyBool(TRUE)
False == PyBool(FALSE)

\* Python objects: set() and [].
PySet(items) == [kind |-> "set", set |-> items, list |-> <<>>]
PyList(items) == [kind |-> "list", set |-> {}, list |-> items]

\* str.__lt__: the first differing character decides by code point; a
\* proper prefix is smaller.
RECURSIVE SeqLess(_, _)
SeqLess(a, b) ==
    IF b = <<>> THEN FALSE
    ELSE IF a = <<>> THEN TRUE
    ELSE IF Head(a) # Head(b) THEN Head(a) < Head(b)
    ELSE SeqLess(Tail(a), Tail(b))

str_lt(a, b) == SeqLess(CodePoints(a), CodePoints(b))

\* list.sort(): the items in ascending order of <, by insertion.
RECURSIVE sort_insert(_, _)
sort_insert(sorted, item) ==
    IF sorted = <<>> THEN <<item>>
    ELSE IF str_lt(item, Head(sorted)) THEN <<item>> \o sorted
    ELSE <<Head(sorted)>> \o sort_insert(Tail(sorted), item)

\* sort() left out: the list as the loop filled it.
unsorted(list) == list

RECURSIVE sort(_)
sort(list) ==
    IF list = <<>> THEN <<>>
    ELSE sort_insert(sort(SubSeq(list, 1, Len(list) - 1)), list[Len(list)])

\* The orders in which `for identifier in self.id` may visit a set.
Iterations(items) ==
    {order \in [1..Cardinality(items) -> items] :
        \A a, b \in 1..Cardinality(items) : a # b => order[a] # order[b]}

\* set.add, set.remove
set_add_nothing(items, ident) == items
set_add(items, ident) == items \cup {ident}
set_remove_all(items, ident) == items \ items
set_remove(items, ident) == items \ {ident}

\* `return result` of getIds: the list just built, not the attribute.
getIds_return_attribute(built, attribute) == attribute
getIds_return(built, attribute) == built

\* self.id of venue_1
self_id == heap[venue_1.id].set

\* History of a session: the last call, the set as it was before that call,
\* and whether the caller has changed a list getIds() returned.
NoCall ==
    [method |-> "", identifier |-> "", identifiers |-> <<>>, before |-> {},
     changed |-> FALSE]
Called(method, ident) ==
    [method |-> method, identifier |-> ident, identifiers |-> <<>>,
     before |-> self_id, changed |-> call.changed \/ method = "append"]

\* venue_1 = Venue(identifiers, name): self.id = set(), then one add per
\* item of the collection.
Venue__init__ ==
    \E identifiers \in UNION {[1..k -> Identifiers] : k \in 0..MaxIdentifiers},
       venue_name \in Names :
        /\ venue_1 = [id |-> 1, name |-> venue_name]
        /\ heap = <<PySet(Range(identifiers))>>
        /\ result = PyNone
        /\ call = [method |-> "__init__", identifier |-> "",
                   identifiers |-> identifiers, before |-> {}, changed |-> FALSE]

\* What is left of the heap once the call has returned value: the set of
\* venue_1, and the second object only while the caller holds it.
collect(objects, value) ==
    IF value.tag = "ref" /\ value.ref > 1 THEN objects ELSE SubSeq(objects, 1, 1)

\* venue_1.getIds()
Venue_getIds ==
    /\ \E order \in Iterations(self_id) :
          /\ result' = PyRef(getIds_return(2, venue_1.id))
          /\ heap' = collect(<<heap[1], PyList(sort(order))>>, result')
    /\ call' = Called("getIds", "")
    /\ UNCHANGED <<venue_1, pipelineVars, netflixVars>>

\* venue_1.getName()
Venue_getName ==
    /\ result' = PyStr(venue_1.name)
    /\ heap' = collect(heap, result')
    /\ call' = Called("getName", "")
    /\ UNCHANGED <<venue_1, pipelineVars, netflixVars>>

\* venue_1.addId(identifier)
Venue_addId ==
    \E ident \in Identifiers :
        /\ IF ident \notin self_id
           THEN /\ result' = True
                /\ heap' = collect([heap EXCEPT ![venue_1.id].set = set_add(@, ident)],
                                   result')
           ELSE /\ result' = False
                /\ heap' = collect(heap, result')
        /\ call' = Called("addId", ident)
        /\ UNCHANGED <<venue_1, pipelineVars, netflixVars>>

\* venue_1.removeId(identifier)
Venue_removeId ==
    \E ident \in Identifiers :
        /\ IF ident \in self_id
           THEN /\ result' = True
                /\ heap' = collect([heap EXCEPT ![venue_1.id].set = set_remove(@, ident)],
                                   result')
           ELSE /\ result' = False
                /\ heap' = collect(heap, result')
        /\ call' = Called("removeId", ident)
        /\ UNCHANGED <<venue_1, pipelineVars, netflixVars>>

\* The caller changes the object getIds() returned: append on a list, add
\* on a set.
Caller_append ==
    /\ result.tag = "ref"
    /\ \E ident \in Identifiers :
          /\ IF heap[result.ref].kind = "list"
             THEN /\ Len(heap[result.ref].list) < MaxListLen
                  /\ heap' = [heap EXCEPT ![result.ref].list = Append(@, ident)]
             ELSE heap' = [heap EXCEPT ![result.ref].set = set_add(@, ident)]
          /\ call' = Called("append", ident)
    /\ UNCHANGED <<venue_1, result, pipelineVars, netflixVars>>

(***************************************************************************)
(* src/unnamed/part_000, Exercise 5 of the Netflix notebook:               *)
(* convert_to_minutes(row).  A text is the sequence of its characters.     *)
(***************************************************************************)
EPISODES_PER_SEASON == 10
MINUTES_PER_EPISODE == 45

\* A cell of the column duration: a text, or NaN for an empty cell.
Text(characters) == [na |-> FALSE, text |-> characters]
NaNCell == [na |-> TRUE, text |-> <<>>]

\* The unit words, and the first tokens and layouts of the duration texts
\* of a session: "<n> <unit>", "<n><unit>", "<unit> <n>", also with the
\* number or the unit left out.
Word_min == <<"m", "i", "n">>
Word_Season == <<"S", "e", "a", "s", "o", "n">>
Word_Seasons == <<"S", "e", "a", "s", "o", "n", "s">>
Word_h == <<"h">>
Space == <<" ">>
Units == {Word_min, Word_Season, Word_Seasons, Word_h, <<>>}
Numbers == {<<"1">>, <<"2">>, <<"9", "0">>, <<"1", "2", "5">>, <<>>}
DurationTexts ==
    {n \o sep \o u : n \in Numbers, sep \in {Space, <<>>}, u \in Units}
       \cup {u \o Space \o n : n \in Numbers, u \in Units}
Durations == {Text(t) : t \in DurationTexts} \cup {NaNCell}
Types == {"Movie", "TV Show", "Documentary", NaN}
NetflixRows == [type : Types, duration : Durations]

\* pd.isna(value)
isna(cell) == cell.na

\* sub in text
in(sub, text) ==
    \E k \in 0..(Len(text) - Len(sub)) : SubSeq(text, k + 1, k + Len(sub)) = sub

\* text.split(' ')[0]: the characters before the first space.
RECURSIVE split_first(_)
split_first(text) ==
    IF text = <<>> \/ Head(text) = " " THEN <<>>
    ELSE <<Head(text)>> \o split_first(Tail(text))

DigitChars == {"0", "1", "2", "3", "4", "5", "6", "7", "8", "9"}
DigitValue(c) == CHOOSE d \in 0..9 : Digit(d) = c

\* int(token) accepts a non-empty run of digits (the texts of a session
\* carry no sign, underscore or surrounding blank) and raises ValueError
\* for anything else.
IsNumeral(token) ==
    token # <<>> /\ \A k \in 1..Len(token) : token[k] \in DigitChars

RECURSIVE int(_)
int(token) ==
    IF token = <<>> THEN 0
    ELSE 10 * int(SubSeq(token, 1, Len(token) - 1)) + DigitValue(token[Len(token)])

\* int() guarded: None for a first token that is no number.
first_number_or_None(text, factor) ==
    IF IsNumeral(split_first(text))
    THEN PyInt(int(split_first(text)) * factor)
    ELSE PyNone

\* The value of int(duration_str.split(' ')[0]) times a factor, or the
\* ValueError int() raises.
first_number_times(text, factor) ==
    IF IsNumeral(split_first(text))
    THEN PyInt(int(split_first(text)) * factor)
    ELSE Raised("ValueError")

convert_to_minutes(r) ==
    IF isna(r.duration) THEN PyNone
    ELSE IF r.type = "Movie"
         THEN IF in(Word_min, r.duration.text)
              THEN first_number_times(r.duration.text, 1)
              ELSE PyNone
    ELSE IF r.type = "TV Show"
         THEN IF in(Word_Season, r.duration.text) \/ in(Word_Seasons, r.duration.text)
              THEN first_number_times(r.duration.text,
                                      EPISODES_PER_SEASON * MINUTES_PER_EPISODE)
              ELSE PyNone
    ELSE PyNone

NotCalled == [tag |-> "", bool |-> FALSE, ref |-> 0, str |-> "", int |-> 0]

\* convert_to_minutes is called with the row.
N_Apply ==
    /\ returned = NotCalled
    /\ returned' = convert_to_minutes(netflix_row)
    /\ UNCHANGED <<netflix_row, pipelineVars, classVars>>

(***************************************************************************)
(* The whole notebook.                                                     *)
(***************************************************************************)
Start(s) ==
    CASE s = "library" -> "read_csv"
      [] s = "relational" -> "venues_ids"
      [] s = "graph" -> "new_graph"

\* No execution has completed yet.
NeverCompleted == [completed |-> FALSE, db |-> NoDb, triplestore |-> {}]

\* The notebook is executed again from its first cell in a fresh kernel:
\* what the files and the stores hold stays, every Python object is gone
\* (a connection left open is dropped, its pending rows with it).
RunAgain ==
    /\ pc \in {"done", "error"}
    /\ rerun' = TRUE
    /\ pc' = Start(script)
    /\ error' = "none"
    /\ txn' = <<>>
    /\ connection' = <<>>
    /\ i' = 0
    /\ bibliographic_df' = NoFrame /\ publishers_df' = NoFrame /\ merged_df' = NoFrame
    /\ venues' = NoFrame /\ venues_ids' = NoFrame /\ journals' = NoFrame
    /\ books' = NoFrame /\ publications' = NoFrame /\ df_joined' = NoFrame
    /\ journal_articles' = NoFrame /\ book_chapters' = NoFrame
    /\ my_graph' = <<>> /\ venue_internal_id' = EmptyDict
    /\ prev_ids' = ids
    /\ ids' = NoIds
    /\ prev_dest' = IF pc = "done"
                    THEN [completed |-> TRUE, db |-> db, triplestore |-> triplestore]
                    ELSE prev_dest
    /\ UNCHANGED <<script, files, db, triplestore, elsewhere>>

Scripts == {"library", "relational", "graph"}

FilesOf(s) ==
    CASE s = "library" -> LibraryFiles \cup LibraryDefectFiles
      [] s = "relational" -> HandsOnFiles \cup HandsOnDefectFiles
      [] s = "graph" -> HandsOnFiles

\* publications.db may exist before the notebook runs, with a table of an
\* earlier session under one of the names the notebook writes.
StaleDb ==
    [exists |-> TRUE,
     tables |-> DictSet(EmptyDict, "Journal",
                   [columns |-> {"index", "internalId", "name"},
                    primary_key |-> {},
                    not_null |-> {},
                    rows |-> <<[index |-> "0", internalId |-> "venue-7",
                                name |-> "Old"]>>])]

InitialDbs(s) == IF s = "relational" THEN {NoDb, StaleDb} ELSE {NoDb}

\* No session of handson/02 is open.
ClassesIdle ==
    /\ venue_1 = [id |-> 0, name |-> ""]
    /\ heap = <<>>
    /\ result = PyNone
    /\ call = NoCall

\* The Netflix notebook is not running.
NetflixIdle ==
    /\ netflix_row = [type |-> NaN, duration |-> NaNCell]
    /\ returned = NotCalled

\* None of the three loading scripts is running.
PipelineIdle ==
    /\ script = "none" /\ pc = "idle" /\ rerun = FALSE /\ error = "none"
    /\ files = <<>>
    /\ db = NoDb /\ txn = <<>> /\ connection = <<>> /\ i = 0
    /\ bibliographic_df = NoFrame /\ publishers_df = NoFrame /\ merged_df = NoFrame
    /\ venues = NoFrame /\ venues_ids = NoFrame /\ journals = NoFrame
    /\ books = NoFrame /\ publications = NoFrame /\ df_joined = NoFrame
    /\ journal_articles = NoFrame /\ book_chapters = NoFrame
    /\ my_graph = <<>> /\ venue_internal_id = EmptyDict /\ triplestore = {}
    /\ ids = NoIds /\ prev_ids = NoIds /\ prev_dest = NeverCompleted

Init ==
    /\ script \in Scripts
    /\ files \in FilesOf(script)
    /\ pc = Start(script)
    /\ rerun = FALSE
    /\ error = "none"
    /\ db \in InitialDbs(script)
    /\ txn = <<>>
    /\ connection = <<>>
    /\ i = 0
    /\ bibliographic_df = NoFrame /\ publishers_df = NoFrame /\ merged_df = NoFrame
    /\ venues = NoFrame /\ venues_ids = NoFrame /\ journals = NoFrame
    /\ books = NoFrame /\ publications = NoFrame /\ df_joined = NoFrame
    /\ journal_articles = NoFrame /\ book_chapters = NoFrame
    /\ my_graph = <<>> /\ venue_internal_id = EmptyDict /\ triplestore = {}
    /\ ids = NoIds /\ prev_ids = NoIds /\ prev_dest = NeverCompleted
    /\ ClassesIdle /\ NetflixIdle

Next ==
    \/ L_ReadCsv \/ L_UniqueId \/ L_Merge \/ L_Connect \/ L_CreateTables
    \/ L_InsertPublisher \/ L_InsertBiblio \/ L_Commit \/ L_Close
    \/ R_VenuesIds \/ R_JournalsQuery \/ R_JournalsMerge \/ R_JournalsTable
    \/ R_Books \/ R_Publications \/ R_JournalArticles \/ R_BookChapters
    \/ R_WithConnect \/ R_ToSql \/ R_WithExit
    \/ G_NewGraph \/ G_VenuesRead \/ G_VenuesLoop \/ G_PublicationsRead
    \/ G_PublicationsLoop \/ G_StoreOpen \/ G_Upload \/ G_StoreClose
    \/ RunAgain

Spec == Init /\ [][Next]_vars

\* A session of handson/02 with one Venue object.
InitVenue == Venue__init__ /\ PipelineIdle /\ NetflixIdle

NextVenue ==
    \/ Venue_getIds \/ Venue_getName \/ Venue_addId \/ Venue_removeId
    \/ Caller_append

SpecVenue == InitVenue /\ [][NextVenue]_vars

\* convert_to_minutes applied to one row of the Netflix frame.
InitNetflix ==
    /\ netflix_row \in NetflixRows
    /\ returned = NotCalled
    /\ PipelineIdle /\ ClassesIdle

NextNetflix == N_Apply

SpecNetflix == InitNetflix /\ [][NextNetflix]_vars

(***************************************************************************)
(* Where a run stands.                                                     *)
(***************************************************************************)
\* The library script has executed its merge cell.
LibMerged ==
    /\ script = "library"
    /\ \/ pc \in {"connect", "create_tables", "insert_publisher", "insert_biblio",
                  "commit", "close", "done"}
       \/ pc = "error" /\ connection # <<>>

\* The library script has executed its unique_id cell.
LibAssigned ==
    /\ script = "library"
    /\ \/ pc = "merge"
       \/ LibMerged
       \/ pc = "error" /\ error = "KeyError"

\* The relational script has built all four tables as data frames.
RelTablesBuilt ==
    script = "relational" /\ pc \in {"with_connect", "to_sql", "with_exit", "done"}

\* The graph script has left the venues loop.
GraphVenuesDone ==
    /\ script = "graph"
    /\ pc \in {"publications_read", "publications_loop", "store_open", "upload",
               "store_close", "done", "error"}

\* The graph script has left the publications loop without an exception.
GraphPublicationsDone ==
    /\ script = "graph"
    /\ \/ pc \in {"store_open", "upload", "store_close", "done"}
       \/ pc = "error" /\ error = "URLError"

\* The rows of frame `right` whose column right_on equals value.
KeyMatches(right, right_on, value) ==
    {r \in 1..len(right) : right.rows[r][right_on] = value}

\* The rows of a joined frame taken from the left row labelled label.
JoinedFrom(joined, label) ==
    {k \in 1..len(joined) : joined.left_index[k] = label}

Max(a, b) == IF a >= b THEN a ELSE b

PublisherMatches(l) ==
    KeyMatches(publishers_df, "id", bibliographic_df.rows[l]["publisher"])

OfType(df, type) == {k \in 1..len(df) : df.rows[k]["type"] = type}

VenueMatches(k) ==
    KeyMatches(venues_ids, "id", publications.rows[k]["publication venue"])

SharedKey(df, column) ==
    \E a, b \in 1..len(df) : a # b /\ df.rows[a][column] = df.rows[b][column]

C3_AmbiguousJoinRaised ==
    /\ (LibMerged /\ SharedKey(publishers_df, "id")) =>
          (pc = "error" /\ error = "AmbiguousJoin")
    /\ (RelTablesBuilt /\ SharedKey(venues_ids, "id")) =>
          (pc = "error" /\ error = "AmbiguousJoin")
    /\ (GraphVenuesDone /\ SharedKey(venues, "id")) =>
          (pc = "error" /\ error = "AmbiguousJoin")

\* The decimal numerals of the row numbers a file of the model can have.
Numeral(n) == <<"0", "1", "2", "3", "4", "5", "6", "7", "8", "9">>[n + 1]

\* The last row of the venues frame with the given id.
LastVenue(id) ==
    CHOOSE r \in KeyMatches(venues, "id", id) :
        \A q \in KeyMatches(venues, "id", id) : q <= r

\* The publications whose loop iteration has completed.
PublicationsLooped ==
    IF GraphPublicationsDone THEN 1..len(publications)
    ELSE IF script = "graph" /\ pc \in {"publications_loop", "error"}
         THEN 1..(i - 1)
    ELSE {}

\* C3 as amended: right records that share a key raise no error at the
\* join.  merge emits the left record once per right record with its key,
\* each with that right record's fields; the graph script's dictionary keeps
\* for an id the subject of the last venue row with that id, and every
\* publication of that venue is linked to that subject.
C3_SharedKeys ==
    /\ error # "AmbiguousJoin"
    /\ (script = "library" /\ pc = "connect") => error = "none"
    /\ LibMerged =>
          \A l \in 1..len(bibliographic_df) : \A r \in PublisherMatches(l) :
              \E k \in JoinedFrom(merged_df, bibliographic_df.index[l]) :
                  /\ merged_df.right_index[k] = publishers_df.index[r]
                  /\ merged_df.rows[k]["publisher_name"] = publishers_df.rows[r]["name"]
                  /\ merged_df.rows[k]["unique_id_y"] = publishers_df.rows[r]["unique_id"]
    /\ RelTablesBuilt =>
          /\ error = "none"
          /\ \A k \in OfType(publications, "journal article") : \A r \in VenueMatches(k) :
                \E j \in JoinedFrom(journal_articles, publications.index[k]) :
                    journal_articles.rows[j]["publicationVenue"]
                       = venues_ids.rows[r]["venueId"]
    /\ GraphVenuesDone =>
          /\ DOMAIN venue_internal_id = {venues.rows[r]["id"] : r \in 1..len(venues)}
          /\ \A id \in DOMAIN venue_internal_id :
                venue_internal_id[id]
                   = URIRef("https://comp-data.github.io/res/venue-"
                               \o Numeral(venues.index[LastVenue(id)]))
          /\ \A k \in PublicationsLooped :
                <<URIRef("https://comp-data.github.io/res/publication-"
                            \o Numeral(publications.index[k])),
                  publicationVenue,
                  URIRef("https://comp-data.github.io/res/venue-"
                            \o Numeral(venues.index[
                                  LastVenue(publications.rows[k]["publication venue"])]))>>
                   \in Range(my_graph)

C3_Witness ==
    /\ GraphPublicationsDone /\ pc = "done"
    /\ SharedKey(venues, "id")
    /\ \E k \in 1..len(publications) :
          Cardinality(KeyMatches(venues, "id",
                                 publications.rows[k]["publication venue"])) = 2

(***************************************************************************)
(* C4.  For every publication row whose issue field is empty, whatever its *)
(* type, the graph holds no statement with that publication's subject and  *)
(* the issue predicate; the same for an empty volume field.                *)
(***************************************************************************)
PublicationSubject(k) ==
    URIRef("https://comp-data.github.io/res/publication-"
              \o Numeral(publications.index[k]))

C4_NoStatementForEmptyCell ==
    script = "graph" =>
        \A k \in 1..len(publications) : \A t \in Range(my_graph) :
            /\ (publications.rows[k]["issue"] = "")
                  => ~(t[1] = PublicationSubject(k) /\ t[2] = issue)
            /\ (publications.rows[k]["volume"] = "")
                  => ~(t[1] = PublicationSubject(k) /\ t[2] = volume)

(***************************************************************************)
(* C5.  In every reachable state of a relational destination no persisted  *)
(* row holds an empty string or NULL in a column whose source cell was     *)
(* empty or missing.                                                       *)
(***************************************************************************)
C5_NoEmptyOrNullPersisted ==
    \A t \in DOMAIN db.tables :
        \A k \in 1..Len(db.tables[t].rows) :
            \A c \in db.tables[t].columns \ IntColumns :
                db.tables[t].rows[k][c] \notin {"", NULL}

\* The text of a cell of a file, by row label.
FileCell(path, label, column) == files[path].rows[label + 1][column]

\* What the library script stores for a cell text.
StoredForText(text) == IF text \in {"", "NA", "NaN", "null"} THEN NULL ELSE text

\* The relational script has written the table of the given position.
Written(position) ==
    /\ script = "relational"
    /\ (pc = "to_sql" /\ i > position) \/ pc \in {"with_exit", "done"}

\* C5 as amended: a missing source cell is persisted as the missing value
\* itself, never replaced by another value.  library.db holds NULL for it
\* in the nullable columns id, type and publisher and never in title, name
\* or unique_id (that INSERT is refused); publications.db holds the empty
\* string the frame holds.
C5_AbsentStoredAsIs ==
    /\ (script = "library" /\ db.exists /\ DOMAIN db.tables # {}) =>
          /\ \A k \in 1..Len(VisibleRows("Publisher")) :
                /\ \A c \in {"id", "name"} :
                      VisibleRows("Publisher")[k][c]
                         = StoredForText(FileCell("publisher.csv", k - 1, c))
                /\ VisibleRows("Publisher")[k]["name"] # NULL
                /\ VisibleRows("Publisher")[k]["unique_id"] # NULL
          /\ \A k \in 1..Len(VisibleRows("BibliographicResource")) :
                /\ \A c \in {"id", "title", "type", "publisher"} :
                      VisibleRows("BibliographicResource")[k][c]
                         = StoredForText(FileCell("data.csv", k - 1, c))
                /\ VisibleRows("BibliographicResource")[k]["title"] # NULL
                /\ VisibleRows("BibliographicResource")[k]["unique_id"] # NULL
    /\ Written(4) =>
          /\ Len(db.tables["JournalArticle"].rows) = len(journal_articles)
          /\ \A k \in 1..len(journal_articles) :
                \A c \in {"doi", "title", "issue", "volume"} :
                    db.tables["JournalArticle"].rows[k][c]
                       = FileCell("01-publications.csv",
                                  journal_articles.left_index[k], c)
    /\ Written(5) =>
          /\ Len(db.tables["BookChapter"].rows) = len(book_chapters)
          /\ \A k \in 1..len(book_chapters) :
                \A c \in {"doi", "title"} :
                    db.tables["BookChapter"].rows[k][c]
                       = FileCell("01-publications.csv",
                                  book_chapters.left_index[k], c)

C5_Witness ==
    /\ script = "library" /\ pc = "done"
    /\ \E k \in 1..Len(db.tables["BibliographicResource"].rows) :
          /\ db.tables["BibliographicResource"].rows[k]["type"] = NULL
          /\ FileCell("data.csv", k - 1, "type") = ""
    /\ \E k \in 1..Len(db.tables["Publisher"].rows) :
          db.tables["Publisher"].rows[k]["id"] = NULL

(***************************************************************************)
(* C6.  The destination connection is released on every exit path: every   *)
(* run, whether its writes complete or one fails part-way, ends with the   *)
(* connection it opened committed and then closed.                         *)
(***************************************************************************)
C6_ConnectionReleased ==
    (pc \in {"done", "error"} /\ connection # <<>>) =>
        /\ connection[Len(connection)] = "close"
        /\ script # "graph" =>
              /\ Len(connection) >= 2
              /\ connection[Len(connection) - 1] = "commit"

(***************************************************************************)
(* C7.  Identifier assignment gives the i-th record (0-based, input order) *)
(* exactly the prefix, a hyphen and i, for every record and every set size *)
(* including the empty set, and changes no other attribute of any record.  *)
(***************************************************************************)
\* What read_csv of the library script holds for a cell text.
ReadForText(text) == IF text \in {"", "NA", "NaN", "null"} THEN NaN ELSE text

\* The relational script has executed its venueId cell / internalId cell.
RelVenuesAssigned ==
    /\ script = "relational" /\ pc # "venues_ids"
    /\ pc = "error" => Readable("01-venues.csv")
RelPublicationsAssigned ==
    /\ script = "relational"
    /\ pc \in {"journal_articles", "book_chapters", "with_connect", "to_sql",
               "with_exit", "done"}

C7_PositionalIdentifiers ==
    /\ LibAssigned =>
          /\ bibliographic_df.columns = files["data.csv"].columns \cup {"unique_id"}
          /\ len(bibliographic_df) = Len(files["data.csv"].rows)
          /\ \A k \in 1..len(bibliographic_df) :
                /\ bibliographic_df.rows[k]["unique_id"] = "biblio-" \o Numeral(k - 1)
                /\ \A c \in files["data.csv"].columns :
                      bibliographic_df.rows[k][c]
                         = ReadForText(files["data.csv"].rows[k][c])
          /\ publishers_df.columns = files["publisher.csv"].columns \cup {"unique_id"}
          /\ len(publishers_df) = Len(files["publisher.csv"].rows)
          /\ \A k \in 1..len(publishers_df) :
                /\ publishers_df.rows[k]["unique_id"] = "publisher-" \o Numeral(k - 1)
                /\ \A c \in files["publisher.csv"].columns :
                      publishers_df.rows[k][c]
                         = ReadForText(files["publisher.csv"].rows[k][c])
    /\ RelVenuesAssigned =>
          /\ venues_ids.columns = {"id", "venueId"}
          /\ len(venues_ids) = Len(files["01-venues.csv"].rows)
          /\ \A k \in 1..len(venues_ids) :
                /\ venues_ids.rows[k]["venueId"] = "venue-" \o Numeral(k - 1)
                /\ venues_ids.rows[k]["id"] = files["01-venues.csv"].rows[k]["id"]
          /\ venues.columns = files["01-venues.csv"].columns
          /\ venues.rows = files["01-venues.csv"].rows
    /\ RelPublicationsAssigned =>
          /\ publications.columns
                = files["01-publications.csv"].columns \cup {"internalId"}
          /\ len(publications) = Len(files["01-publications.csv"].rows)
          /\ \A k \in 1..len(publications) :
                /\ publications.rows[k]["internalId"]
                      = "publication-" \o Numeral(k - 1)
                /\ \A c \in files["01-publications.csv"].columns :
                      publications.rows[k][c]
                         = files["01-publications.csv"].rows[k][c]
    /\ script = "graph" =>
          /\ \A k \in 1..Len(ids[1]) :
                /\ ids[1][k] = "venue-" \o Numeral(k - 1)
                /\ <<URIRef("https://comp-data.github.io/res/venue-"
                               \o Numeral(k - 1)),
                     identifier,
                     Literal(files["01-venues.csv"].rows[k]["id"])>>
                      \in Range(my_graph)
          /\ \A k \in 1..Len(ids[2]) :
                /\ ids[2][k] = "publication-" \o Numeral(k - 1)
                /\ <<URIRef("https://comp-data.github.io/res/publication-"
                               \o Numeral(k - 1)),
                     identifier,
                     Literal(files["01-publications.csv"].rows[k]["doi"])>>
                      \in Range(my_graph)
          /\ GraphVenuesDone => Len(ids[1]) = Len(files["01-venues.csv"].rows)
          /\ GraphPublicationsDone =>
                Len(ids[2]) = Len(files["01-publications.csv"].rows)

C7_Witness ==
    /\ LibAssigned
    /\ len(bibliographic_df) = 2
    /\ bibliographic_df.rows[2]["unique_id"] = "biblio-1"
    /\ len(publishers_df) = 0

(***************************************************************************)
(* C8.  Synthetic identifiers are unique: no two records of one source set *)
(* receive the same identifier, and no venue identifier equals a           *)
(* publication identifier in the tables written to one database.           *)
(***************************************************************************)
Injective(seq) ==
    \A a, b \in DOMAIN seq : seq[a] = seq[b] => a = b

\* The values a table of the database holds in a column.
TableValues(t, c) ==
    {db.tables[t].rows[k][c] : k \in 1..Len(db.tables[t].rows)}

C8_IdentifiersUnique ==
    /\ Injective(ids[1]) /\ Injective(ids[2])
    /\ Range(ids[1]) \cap Range(ids[2]) = {}
    /\ LibAssigned =>
          /\ Injective(ColumnValues(bibliographic_df, "unique_id"))
          /\ Injective(ColumnValues(publishers_df, "unique_id"))
          /\ Range(ColumnValues(bibliographic_df, "unique_id"))
                \cap Range(ColumnValues(publishers_df, "unique_id")) = {}
    /\ RelVenuesAssigned => Injective(ColumnValues(venues_ids, "venueId"))
    /\ RelPublicationsAssigned =>
          /\ Injective(ColumnValues(publications, "internalId"))
          /\ Range(ColumnValues(publications, "internalId"))
                \cap Range(ColumnValues(venues_ids, "venueId")) = {}
    /\ Written(5) =>
          (TableValues("VenueId", "venueId") \cup TableValues("Journal", "internalId")
              \cup TableValues("Book", "internalId"))
            \cap (TableValues("JournalArticle", "internalId")
                    \cup TableValues("BookChapter", "internalId")) = {}

C8_Witness ==
    /\ script = "relational" /\ pc = "done"
    /\ Cardinality(TableValues("VenueId", "venueId")) = 2
    /\ TableValues("Journal", "internalId") # {}
    /\ TableValues("JournalArticle", "internalId") # {}
    /\ TableValues("BookChapter", "internalId") # {}

(***************************************************************************)
(* C9.  Identifier assignment is deterministic: a run over the same input  *)
(* in the same row order assigns each row the identifier the run before    *)
(* assigned it, whatever that run did and whatever the destination store   *)
(* holds.                                                                  *)
(***************************************************************************)
Min(a, b) == IF a <= b THEN a ELSE b

C9_SameIdentifiersOnRerun ==
    rerun =>
        \A s \in 1..2 :
            \A k \in 1..Min(Len(ids[s]), Len(prev_ids[s])) :
                ids[s][k] = prev_ids[s][k]

C9_Witness ==
    /\ rerun /\ script = "library" /\ pc = "merge"
    /\ db.exists /\ "Publisher" \in DOMAIN db.tables
    /\ Len(db.tables["Publisher"].rows) >= 1
    /\ Len(ids[1]) >= 1 /\ Len(ids[2]) >= 1
    /\ ids = prev_ids

(***************************************************************************)
(* C10.  An identifier is never recomputed after assignment: after query   *)
(* and merge every journal, book, journal article and book chapter row     *)
(* carries the identifier assigned from the position of its own row in the *)
(* input file.                                                             *)
(***************************************************************************)
OwnIdentifier(table, prefix, column) ==
    \A k \in 1..len(table) :
        table.rows[k][column] = prefix \o Numeral(table.left_index[k])

C10_IdentifierOfOwnRow ==
    RelTablesBuilt =>
        /\ OwnIdentifier(journals, "venue-", "internalId")
        /\ OwnIdentifier(books, "venue-", "internalId")
        /\ OwnIdentifier(journal_articles, "publication-", "internalId")
        /\ OwnIdentifier(book_chapters, "publication-", "internalId")

\* The identifier of a venue row is that of a row of the venues file with
\* the id of the row's own input row.
IdentifierOfSameVenue(table) ==
    \A k \in 1..len(table) :
        /\ table.rows[k]["internalId"] = "venue-" \o Numeral(table.right_index[k])
        /\ files["01-venues.csv"].rows[table.right_index[k] + 1]["id"]
              = files["01-venues.csv"].rows[table.left_index[k] + 1]["id"]
        /\ table.rows[k]["name"]
              = files["01-venues.csv"].rows[table.left_index[k] + 1]["name"]
        /\ Cardinality(KeyMatches(venues, "id",
              files["01-venues.csv"].rows[table.left_index[k] + 1]["id"])) = 1
              => table.right_index[k] = table.left_index[k]

\* C10 as amended: every journal article and book chapter row carries the
\* identifier assigned from the position of its own input row.  A journal or
\* book row carries the identifier venues_ids holds for a row with the same
\* id, taken from that row's position in the input: its own when no other
\* venue row has its id, and one row per such venue row otherwise.
C10_IdentifierOfKeyRow ==
    RelTablesBuilt =>
        /\ IdentifierOfSameVenue(journals)
        /\ IdentifierOfSameVenue(books)
        /\ OwnIdentifier(journal_articles, "publication-", "internalId")
        /\ OwnIdentifier(book_chapters, "publication-", "internalId")

C10_Witness ==
    /\ RelTablesBuilt
    /\ \E k \in 1..len(journals) : journals.left_index[k] # k - 1
    /\ \E k \in 1..len(journal_articles) : journal_articles.left_index[k] # k - 1

(***************************************************************************)
(* C11.  When every publication's venue reference matches exactly one      *)
(* venue, the persisted publication table has as many rows as there are    *)
(* publications and every row carries a non-null foreign key equal to the  *)
(* key of a row present in the venue / publisher table.                    *)
(***************************************************************************)
\* The rows of a file whose column holds the text.
FileMatches(path, column, text) ==
    {r \in 1..Len(files[path].rows) : files[path].rows[r][column] = text}

\* Every row of the left file names, in its reference column, the id of
\* exactly one row of the right file.
EachMatchesOne(left, reference, right) ==
    \A l \in 1..Len(files[left].rows) :
        /\ files[left].rows[l][reference] \notin {"", "NA", "NaN", "null"}
        /\ Cardinality(FileMatches(right, "id", files[left].rows[l][reference])) = 1

\* The rows a table of the database file holds.
TableRows(t) == db.tables[t].rows

C11_WitnessLibrary ==
    /\ script = "library" /\ pc = "done"
    /\ EachMatchesOne("data.csv", "publisher", "publisher.csv")
    /\ Len(TableRows("BibliographicResource")) = 2

(***************************************************************************)
(* C12.  For every input in which each publication references an existing  *)
(* venue, every publicationVenue of the persisted table JournalArticle is  *)
(* an internalId of the persisted table Journal, and every                 *)
(* publicationVenue of BookChapter is an internalId of Book.               *)
(***************************************************************************)
EachVenueExists ==
    \A l \in 1..Len(files["01-publications.csv"].rows) :
        FileMatches("01-venues.csv", "id",
                    files["01-publications.csv"].rows[l]["publication venue"]) # {}

C12_VenueOfItsKind ==
    (Written(5) /\ EachVenueExists) =>
        /\ TableValues("JournalArticle", "publicationVenue")
              \subseteq TableValues("Journal", "internalId")
        /\ TableValues("BookChapter", "publicationVenue")
              \subseteq TableValues("Book", "internalId")

(***************************************************************************)
(* C13.  Relational Persist in replace mode drops and recreates the named  *)
(* table: whatever rows and columns it held before, after the call the     *)
(* table holds exactly the records of the frame written, no earlier row    *)
(* survives, and the data frame index is not stored as a column.           *)
(***************************************************************************)
\* The records of a frame, cell for cell.
Records(df) == [k \in 1..len(df) |-> [c \in df.columns |-> df.rows[k][c]]]

C13_ReplaceMode ==
    \A n \in 1..5 :
        Written(n) =>
            /\ db.tables[ToSqlNames[n]].columns = ToSqlFrames[n].columns
            /\ "index" \notin db.tables[ToSqlNames[n]].columns
            /\ TableRows(ToSqlNames[n]) = Records(ToSqlFrames[n])

\* Journal has been written over the table of an earlier session, and over
\* the table an earlier execution of the notebook wrote.
C13_Witness ==
    /\ rerun /\ Written(5) /\ pc = "done"
    /\ Len(TableRows("Journal")) = 1
    /\ Len(TableRows("JournalArticle")) = 2
    /\ Len(TableRows("VenueId")) = 2

(***************************************************************************)
(* C14.  Round trip: after Persist completes, every row read back from the *)
(* destination equals, attribute for attribute, the in-memory record that  *)
(* was written, for the tables Publisher and BibliographicResource and for *)
(* the statements of each record in the graph destination.                 *)
(***************************************************************************)
\* A Python value with its type: the cells of an int column are int, the
\* others str (or the float NaN).
PyValue(column, value) ==
    IF column \in IntColumns THEN <<"int", str(value)>> ELSE <<"str", value>>

\* Literal.toPython() of a literal without datatype: the str it was made of.
toPython(term) == <<"str", term[2]>>

\* The objects the endpoint returns for a subject and a predicate.
Objects(subj, pred) ==
    {t[3] : t \in {u \in triplestore : u[1] = subj /\ u[2] = pred}}

VenueSubject(k) ==
    URIRef("https://comp-data.github.io/res/venue-" \o Numeral(venues.index[k]))

\* The library script has committed its inserts.
LibCommitted == script = "library" /\ pc \in {"close", "done"}

\* The graph script has sent every statement and closed the store.
GraphUploaded == script = "graph" /\ pc = "done"

\* The predicate a column of the publications file is mapped to.
PublicationPredicates ==
    [c \in {"title", "doi", "publication year", "issue", "volume"} |->
        CASE c = "title" -> title
          [] c = "doi" -> doi
          [] c = "publication year" -> publicationYear
          [] c = "issue" -> issue
          [] c = "volume" -> volume]

\* The columns a publication row is given statements for.
MappedColumns(row) ==
    {"title", "doi", "publication year"}
       \cup (IF row["type"] = "journal article" THEN {"issue", "volume"} ELSE {})

YearText(year) ==
    CASE year = 2017 -> "2017" [] year = 2018 -> "2018" [] year = 2019 -> "2019"
      [] year = 2020 -> "2020" [] year = 2021 -> "2021"

C14_WitnessLibrary ==
    /\ LibCommitted /\ pc = "done"
    /\ \E k \in 1..len(bibliographic_df) :
          /\ bibliographic_df.rows[k]["type"] = NaN
          /\ TableRows("BibliographicResource")[k]["type"] = NULL

(***************************************************************************)
(* C15.  Every persisted relational row is addressed by its original       *)
(* identifier as primary key: no two rows of a destination table ever      *)
(* share an original identifier, an input with two rows of the same        *)
(* original identifier makes Persist fail rather than store both, and the  *)
(* synthetic identifier is a plain attribute.                              *)
(***************************************************************************)
\* Two rows of the file hold the same, non-missing, text in the column.
FileRepeats(path, column) ==
    \E a, b \in 1..Len(files[path].rows) :
        /\ a # b
        /\ files[path].rows[a][column] = files[path].rows[b][column]
        /\ files[path].rows[a][column] \notin {"", "NA", "NaN", "null"}

\* No two rows of the sequence hold the same non-NULL value in the column.
KeyOf(rows, column) ==
    \A a, b \in 1..Len(rows) :
        (a # b /\ rows[a][column] = rows[b][column]) => rows[a][column] = NULL

\* The column of each table of publications.db that holds the original
\* identifier of the row.
OriginalId ==
    [t \in {"VenueId", "JournalArticle", "BookChapter"} |->
        IF t = "VenueId" THEN "id" ELSE "doi"]

C15_OriginalIdIsKey ==
    /\ script = "library" =>
          /\ \A t \in DOMAIN db.tables : KeyOf(VisibleRows(t), "id")
          /\ (FileRepeats("publisher.csv", "id") \/ FileRepeats("data.csv", "id"))
                => pc \notin {"commit", "close", "done"}
    /\ script = "relational" =>
          /\ \A t \in DOMAIN OriginalId :
                t \in DOMAIN db.tables => KeyOf(TableRows(t), OriginalId[t])
          /\ (FileRepeats("01-venues.csv", "id")
                \/ FileRepeats("01-publications.csv", "doi"))
                => pc \notin {"with_exit", "done"}

\* C15 as amended: only library.db has keys.  There id is the primary key
\* of both tables and unique_id a plain NOT NULL attribute: no two rows of
\* a table share an id, and a file with two rows of the same id stops the
\* run with IntegrityError before the commit, so no row of that run is
\* stored.  to_sql creates the tables of publications.db without any key:
\* rows that share an original identifier are all stored and nothing fails.
C15_KeyOnlyInLibrary ==
    /\ script = "library" =>
          /\ \A t \in DOMAIN db.tables :
                /\ KeyOf(VisibleRows(t), "id")
                /\ db.tables[t].primary_key = {"id"}
                /\ "unique_id" \in db.tables[t].not_null
          /\ (FileRepeats("publisher.csv", "id") \/ FileRepeats("data.csv", "id")) =>
                /\ pc \notin {"commit", "close", "done"}
                /\ (pc = "error" /\ connection # <<>>) =>
                      /\ error \in {"IntegrityError", "KeyError"}
                      /\ HasColumns(bibliographic_df, {"title"})
                            => error = "IntegrityError"
                      /\ \A t \in DOMAIN db.tables : TableRows(t) = <<>>
    /\ script = "relational" =>
          /\ RelTablesBuilt => error = "none"
          /\ \A n \in 1..5 :
                Written(n) =>
                    /\ db.tables[ToSqlNames[n]].primary_key = {}
                    /\ Len(TableRows(ToSqlNames[n])) = len(ToSqlFrames[n])
          /\ Written(1) =>
                [k \in 1..Len(TableRows("VenueId")) |-> TableRows("VenueId")[k]["id"]]
                   = [k \in 1..Len(files["01-venues.csv"].rows) |->
                         files["01-venues.csv"].rows[k]["id"]]

C15_Witness ==
    /\ script = "relational" /\ pc = "done"
    /\ FileRepeats("01-venues.csv", "id")
    /\ Len(TableRows("VenueId")) = 2
    /\ TableRows("VenueId")[1]["id"] = TableRows("VenueId")[2]["id"]

C15_WitnessLibrary ==
    /\ script = "library" /\ pc = "error" /\ error = "IntegrityError"
    /\ FileRepeats("data.csv", "id")
    /\ ~FileRepeats("publisher.csv", "id")
    /\ Len(VisibleRows("BibliographicResource")) = 1
    /\ Len(VisibleRows("Publisher")) = 2

(***************************************************************************)
(* C16.  In graph mode the subject URI of every statement emitted for a    *)
(* record is the base URI concatenated with the record's primary           *)
(* identifier (the original identifier the relational tables use as        *)
(* primary key: id of a venue, doi of a publication), for venues and       *)
(* publications alike.                                                     *)
(***************************************************************************)
\* The statements the graph holds and the endpoint has received.
Statements == Range(my_graph) \cup (IF script = "graph" THEN triplestore ELSE {})

C16_SubjectFromOriginalId ==
    script = "graph" =>
        \A t \in Statements :
            t[1] \in {URIRef("https://comp-data.github.io/res/"
                                \o files["01-venues.csv"].rows[k]["id"]) :
                         k \in 1..Len(files["01-venues.csv"].rows)}
                     \cup
                     {URIRef("https://comp-data.github.io/res/"
                                \o files["01-publications.csv"].rows[k]["doi"]) :
                         k \in 1..Len(files["01-publications.csv"].rows)}

\* The venues whose loop iteration has completed.
VenuesLooped ==
    IF GraphVenuesDone THEN 1..len(venues)
    ELSE IF script = "graph" /\ pc = "venues_loop" THEN 1..(i - 1)
    ELSE {}

\* C16 as amended: the subject URI of every statement emitted for a record
\* is the base URI concatenated with the record's synthetic identifier,
\* "venue-" or "publication-" followed by the 0-based position of the row in
\* its file.  The original identifier (id, doi) is not part of the subject:
\* it is the object of the record's schema:identifier statement.
C16_SubjectFromSyntheticId ==
    script = "graph" =>
        LET held == Range(my_graph)
        IN  /\ \A t \in held \cup triplestore :
                  \/ \E k \in 1..Len(files["01-venues.csv"].rows) :
                        t[1] = URIRef("https://comp-data.github.io/res/venue-"
                                         \o Numeral(k - 1))
                  \/ \E k \in 1..Len(files["01-publications.csv"].rows) :
                        t[1] = URIRef("https://comp-data.github.io/res/publication-"
                                         \o Numeral(k - 1))
            /\ \A k \in VenuesLooped :
                  LET subj == URIRef("https://comp-data.github.io/res/venue-"
                                        \o Numeral(k - 1))
                      emitted == Range(VenueTriples(
                                          subj, files["01-venues.csv"].rows[k]))
                  IN  /\ emitted \subseteq held
                      /\ \A t \in held : t[1] = subj => t \in emitted
            /\ \A k \in PublicationsLooped :
                  Range(PublicationTriples(
                           URIRef("https://comp-data.github.io/res/publication-"
                                     \o Numeral(k - 1)),
                           files["01-publications.csv"].rows[k]))
                     \subseteq held

C16_Witness ==
    /\ GraphUploaded
    /\ len(venues) = 2 /\ len(publications) = 2
    /\ \E t \in triplestore :
          /\ t[1] = URIRef("https://comp-data.github.io/res/publication-1")
          /\ t[2] = identifier /\ t[3] = Literal("d1")
    /\ \E t \in triplestore :
          /\ t[1] = URIRef("https://comp-data.github.io/res/venue-1")
          /\ t[2] = identifier /\ t[3] = Literal("v1")

(***************************************************************************)
(* C17.  Every publication-venue statement of the graph has a URI as       *)
(* object, never a literal, and that URI is the subject of a venue record  *)
(* already in the graph whose id equals the publication's                  *)
(* `publication venue` value.                                              *)
(***************************************************************************)
C17_VenueObjectIsVenueSubject ==
    script = "graph" =>
        /\ \A t \in Statements : t[2] = publicationVenue => t[3][1] = "URIRef"
        /\ \A t \in Range(my_graph) :
              t[2] = publicationVenue =>
                 \E p \in 1..len(publications), k \in 1..len(venues) :
                    /\ t[1] = PublicationSubject(p)
                    /\ t[3] = VenueSubject(k)
                    /\ venues.rows[k]["id"]
                          = publications.rows[p]["publication venue"]
                    /\ <<t[3], identifier, Literal(venues.rows[k]["id"])>>
                          \in Range(my_graph)
                    /\ \E c \in {Journal, Book} :
                          <<t[3], RDF_type, c>> \in Range(my_graph)

C17_Witness ==
    /\ GraphPublicationsDone
    /\ Cardinality({t \in Range(my_graph) : t[2] = publicationVenue}) = 2
    /\ \E t \in triplestore : t[2] = publicationVenue

(***************************************************************************)
(* C18.  Every record persisted in graph mode gets exactly one rdf:type    *)
(* statement whose object is the class of the record's type (journal ->    *)
(* Periodical, book -> Book, journal article -> ScholarlyArticle, book     *)
(* chapter -> Chapter); a record whose type is none of the values of its   *)
(* kind is not given the class of another type.                            *)
(***************************************************************************)
\* The classes my_graph gives a subject.
Classes(subj) ==
    {t[3] : t \in {u \in Range(my_graph) : u[1] = subj /\ u[2] = RDF_type}}

ClassOfType ==
    [t \in {"journal", "book", "journal article", "book chapter"} |->
        CASE t = "journal" -> Journal
          [] t = "book" -> Book
          [] t = "journal article" -> JournalArticle
          [] t = "book chapter" -> BookChapter]

\* Exactly one class, that of the type when the type is one of its kind.
TypedAs(subj, type, kind) ==
    /\ Cardinality(Classes(subj)) = 1
    /\ type \in kind => Classes(subj) = {ClassOfType[type]}
    /\ type \notin kind =>
          Classes(subj) \cap {Journal, Book, JournalArticle, BookChapter} = {}

C18_ClassOfType ==
    script = "graph" =>
        /\ \A k \in VenuesLooped :
              TypedAs(VenueSubject(k), venues.rows[k]["type"], {"journal", "book"})
        /\ \A k \in PublicationsLooped :
              TypedAs(PublicationSubject(k), publications.rows[k]["type"],
                      {"journal article", "book chapter"})

(***************************************************************************)
(* C19.  After the venues loop the number of distinct triples of the graph *)
(* equals the number of cells of the venue table; after the publications   *)
(* loop it equals that number plus the number of non-empty cells of the    *)
(* publication table, for every pair of input tables.                      *)
(***************************************************************************)
\* The number of cells of the first n rows of a file that are not empty.
RECURSIVE NonEmptyCells(_, _)
NonEmptyCells(path, n) ==
    IF n = 0 THEN 0
    ELSE NonEmptyCells(path, n - 1)
            + Cardinality({c \in files[path].columns :
                              c \in IntColumns \/ files[path].rows[n][c] # ""})

\* The number of cells of a file.
Cells(path) == Len(files[path].rows) * Cardinality(files[path].columns)

C19_TripleCount ==
    /\ (script = "graph" /\ pc = "publications_read") =>
          Len(my_graph) = Cells("01-venues.csv")
    /\ GraphPublicationsDone =>
          Len(my_graph)
             = Cells("01-venues.csv")
                  + NonEmptyCells("01-publications.csv",
                                  Len(files["01-publications.csv"].rows))

(***************************************************************************)
(* C20.  Load fails with SchemaMismatch when a required column is absent   *)
(* from the source and with SourceNotFound when the path cannot be read;   *)
(* in both cases the run stops before AssignIdentifiers, Join or Persist   *)
(* is performed and nothing is written to the destination.                 *)
(***************************************************************************)
\* Some path of the run cannot be read.
Unreadable == \E path \in DOMAIN files : ~files[path].readable

\* The file is there but without the column.
Lacks(path, column) ==
    /\ path \in DOMAIN files
    /\ files[path].readable
    /\ column \notin files[path].columns

ColumnAbsent ==
    \/ Lacks("data.csv", "publisher") \/ Lacks("data.csv", "title")
    \/ Lacks("01-venues.csv", "name")

\* No statement of the run has touched the destination.
NothingWritten ==
    /\ db \in InitialDbs(script)
    /\ txn = <<>>
    /\ connection = <<>>

C20_WitnessUnreadable ==
    /\ script = "relational" /\ ~Readable("01-publications.csv")
    /\ pc = "error" /\ error = "FileNotFoundError"
    /\ Len(ids[1]) = 2

C20_WitnessCompletes ==
    /\ script = "library" /\ Lacks("data.csv", "title") /\ pc = "done"

(***************************************************************************)
(* C21.  Venue.addId(identifier) returns True exactly when the identifier  *)
(* was not in the venue's identifier set before the call, and after that   *)
(* call the identifier is in the set; it returns False exactly when the    *)
(* identifier was already present, and then the set is unchanged.          *)
(***************************************************************************)
C21_addId ==
    call.method = "addId" =>
        /\ result \in {True, False}
        /\ result = True <=> call.identifier \notin call.before
        /\ result = True =>
              /\ call.identifier \in self_id
              /\ self_id = call.before \cup {call.identifier}
        /\ result = False => self_id = call.before

C21_Witness ==
    /\ call.method = "addId" /\ result = True
    /\ call.before # {} /\ call.identifier \in self_id

C21_WitnessFalse ==
    call.method = "addId" /\ result = False /\ call.identifier \in call.before

(***************************************************************************)
(* C22.  Venue.removeId(identifier) returns True exactly when the          *)
(* identifier was in the venue's identifier set before the call, and after *)
(* that call the identifier is not in the set and every other identifier   *)
(* is still there; it returns False exactly when the identifier was        *)
(* absent, and then the set is unchanged.                                  *)
(***************************************************************************)
C22_removeId ==
    call.method = "removeId" =>
        /\ result \in {True, False}
        /\ result = True <=> call.identifier \in call.before
        /\ result = True =>
              /\ call.identifier \notin self_id
              /\ \A other \in call.before \ {call.identifier} : other \in self_id
              /\ self_id \subseteq call.before
        /\ result = False => self_id = call.before

C22_Witness ==
    /\ call.method = "removeId" /\ result = True
    /\ Cardinality(call.before) = 2 /\ Cardinality(self_id) = 1

C22_WitnessFalse ==
    call.method = "removeId" /\ result = False /\ call.identifier \notin self_id

(***************************************************************************)
(* C23.  After any sequence of addId and removeId calls, Venue.getIds()    *)
(* returns a list that contains exactly the identifiers currently in the   *)
(* venue's set, each once, in ascending alphabetical order, and the list   *)
(* is a separate object: changing the returned list does not change the    *)
(* venue's identifier set or the result of a later getIds().               *)
(***************************************************************************)
\* Alphabetical order, as of a dictionary: letters compare without regard
\* to case, a digit or hyphen comes before every letter.
Fold(c) == IF c \in 65..90 THEN c + 32 ELSE c
Alphabetical(a, b) ==
    SeqLess([k \in 1..Len(CodePoints(a)) |-> Fold(CodePoints(a)[k])],
            [k \in 1..Len(CodePoints(b)) |-> Fold(CodePoints(b)[k])])

\* The list the last getIds() returned.
ReturnedList == heap[result.ref].list

\* The returned object is a list of its own with exactly the identifiers
\* of the set, each once.
SeparateListOfTheSet ==
    /\ result.tag = "ref" /\ result.ref # venue_1.id
    /\ heap[result.ref].kind = "list"
    /\ Range(ReturnedList) = self_id
    /\ Len(ReturnedList) = Cardinality(self_id)

C23_WitnessChanged ==
    /\ call.method = "append" /\ Len(ReturnedList) > Cardinality(self_id)
    /\ call.identifier \notin self_id

(***************************************************************************)
(* C24.  A Venue always has at least one identifier (id : string [1..*]):  *)
(* after construction and after any sequence of addId and removeId calls,  *)
(* the venue's identifier set is non-empty.                                *)
(***************************************************************************)
C24_AtLeastOneIdentifier == self_id # {}

\* The last identifier has been removed: removeId returned True and the
\* venue holds none.
C24_Witness ==
    /\ call.method = "removeId" /\ result = True
    /\ call.before = {call.identifier} /\ self_id = {}

\* Venue([], name)
C24_WitnessConstructed ==
    call.method = "__init__" /\ call.identifiers = <<>> /\ self_id = {}

(***************************************************************************)
(* C30.  convert_to_minutes returns, for a row of type 'Movie' whose       *)
(* duration is '<n> min', the integer n; for a row of type 'TV Show' whose *)
(* duration is '<n> Season' or '<n> Seasons', n * 10 * 45; and None for    *)
(* every other row (missing duration, any other type, or a duration text   *)
(* without the expected unit); it never returns a value for a row whose    *)
(* type and duration unit do not agree.                                    *)
(***************************************************************************)
\* The duration of the row is the text "<n> <unit>".
DurationIs(unit) ==
    /\ ~netflix_row.duration.na
    /\ \E n \in Numbers :
          n # <<>> /\ netflix_row.duration.text = n \o Space \o unit

\* n of a duration "<n> <unit>".
DurationNumber ==
    int(CHOOSE n \in Numbers :
           \E rest \in {<<>>} \cup {Space \o u : u \in Units} :
               n # <<>> /\ netflix_row.duration.text = n \o rest)

\* The unit word of the row's type occurs in the duration text.
UnitOfTypeOccurs ==
    /\ ~netflix_row.duration.na
    /\ \/ netflix_row.type = "Movie" /\ in(Word_min, netflix_row.duration.text)
       \/ netflix_row.type = "TV Show" /\ in(Word_Season, netflix_row.duration.text)

C30_NoneForEveryOtherRow ==
    returned # NotCalled =>
        IF netflix_row.type = "Movie" /\ DurationIs(Word_min)
        THEN returned = PyInt(DurationNumber)
        ELSE IF netflix_row.type = "TV Show"
                /\ (DurationIs(Word_Season) \/ DurationIs(Word_Seasons))
        THEN returned = PyInt(DurationNumber * 10 * 45)
        ELSE returned = PyNone

\* What the function does: the value for '<n> min' and '<n> Season(s)' rows
\* is as stated, and None is returned for a missing duration, for any other
\* type and for a text in which the unit word of the type does not occur.
\* A text in which the unit word occurs but whose part before the first
\* space is not a number ("90min", "min 90", "min") makes int() raise
\* ValueError: no value is returned and apply() ends with that exception.
C30_ValueNoneOrValueError ==
    returned # NotCalled =>
        /\ (netflix_row.type = "Movie" /\ DurationIs(Word_min))
              => returned = PyInt(DurationNumber)
        /\ (netflix_row.type = "TV Show"
               /\ (DurationIs(Word_Season) \/ DurationIs(Word_Seasons)))
              => returned = PyInt(DurationNumber * 10 * 45)
        /\ ~UnitOfTypeOccurs => returned = PyNone
        /\ (UnitOfTypeOccurs /\ ~IsNumeral(split_first(netflix_row.duration.text)))
              => returned = Raised("ValueError")
        /\ returned.tag = "int" =>
              /\ UnitOfTypeOccurs
              /\ IsNumeral(split_first(netflix_row.duration.text))
        /\ returned.tag \in {"int", "None", "raise"}

C30_Witness ==
    /\ netflix_row.type = "Movie"
    /\ netflix_row.duration = Text(<<"9", "0">> \o Word_min)
    /\ returned = Raised("ValueError")

C30_WitnessMovie ==
    /\ netflix_row.type = "Movie"
    /\ netflix_row.duration = Text(<<"9", "0">> \o Space \o Word_min)
    /\ returned = PyInt(90)

C30_WitnessSeasons ==
    /\ netflix_row.type = "TV Show"
    /\ netflix_row.duration = Text(<<"2">> \o Space \o Word_Seasons)
    /\ returned = PyInt(900)

C30_WitnessDisagree ==
    /\ netflix_row.type = "Movie"
    /\ netflix_row.duration = Text(<<"2">> \o Space \o Word_Seasons)
    /\ returned = PyNone

(***************************************************************************)
(* C25.  Re-running the whole pipeline on the same input leaves the        *)
(* destination with the same content as a single run: the relational       *)
(* script starts from a fresh store (it deletes library.db, or replaces    *)
(* each table), and the graph upload adds no duplicate statement, so no    *)
(* row or statement of an earlier run is duplicated and no run fails       *)
(* because the destination already holds the earlier run's data.           *)
(***************************************************************************)
C25_RerunSameContent ==
    /\ error # "OperationalError"
    /\ (rerun /\ prev_dest.completed) =>
          /\ error \in {"none", "URLError"}
          /\ pc = "done" =>
                /\ db = prev_dest.db
                /\ triplestore = prev_dest.triplestore
          /\ script = "graph" => triplestore = prev_dest.triplestore
    /\ (rerun /\ GraphUploaded) => triplestore = Range(my_graph)

C25_Witness ==
    /\ script = "library" /\ rerun /\ prev_dest.completed /\ pc = "done"
    /\ Len(db.tables["Publisher"].rows) = 2
    /\ Len(db.tables["BibliographicResource"].rows) = 2

C25_WitnessRelational ==
    /\ script = "relational" /\ rerun /\ prev_dest.completed /\ pc = "done"
    /\ Len(db.tables["JournalArticle"].rows) = 2

C25_WitnessGraph ==
    /\ script = "graph" /\ rerun /\ prev_dest.completed /\ pc = "done"
    /\ Cardinality(triplestore) >= 3

C25_WitnessAfterFailure ==
    /\ script = "graph" /\ rerun /\ ~prev_dest.completed /\ pc = "done"
    /\ Cardinality(triplestore) >= 3

(***************************************************************************)
(* C26.  The library.db load is all-or-nothing for its rows: all Publisher *)
(* and BibliographicResource inserts are issued before the single commit,  *)
(* so the committed content of the database at any point of a run (also of *)
(* a run that fails at any insert) holds either none of the input rows or  *)
(* all of them, never some but not all rows of either table.               *)
(***************************************************************************)
\* The committed rows of a table are the rows of the file, in file order.
HoldsAllRows(table, path) ==
    /\ Len(db.tables[table].rows) = Len(files[path].rows)
    /\ \A k \in 1..Len(files[path].rows) :
          db.tables[table].rows[k]["id"] = StoredForText(FileCell(path, k - 1, "id"))

C26_AllOrNothing ==
    (script = "library" /\ "Publisher" \in DOMAIN db.tables) =>
        /\ \/ /\ db.tables["Publisher"].rows = <<>>
              /\ db.tables["BibliographicResource"].rows = <<>>
           \/ /\ HoldsAllRows("Publisher", "publisher.csv")
              /\ HoldsAllRows("BibliographicResource", "data.csv")
        /\ (pc \in {"insert_publisher", "insert_biblio", "commit"}
               \/ (pc = "error" /\ connection # <<>>)) =>
              /\ db.tables["Publisher"].rows = <<>>
              /\ db.tables["BibliographicResource"].rows = <<>>
        /\ LibCommitted =>
              /\ HoldsAllRows("Publisher", "publisher.csv")
              /\ HoldsAllRows("BibliographicResource", "data.csv")
              /\ txn = <<>>

\* The run failed at an INSERT after other rows had been inserted: they are
\* pending, and the file holds the two empty tables.
C26_Witness ==
    /\ script = "library" /\ pc = "error" /\ error = "IntegrityError"
    /\ Len(txn) >= 2
    /\ db.tables["Publisher"].rows = <<>>

C26_WitnessCommitted ==
    /\ LibCommitted
    /\ Len(db.tables["Publisher"].rows) = 2
    /\ Len(db.tables["BibliographicResource"].rows) = 2

(***************************************************************************)
(* C27.  In the library.db load, table creation and population are ordered *)
(* parent-first: the Publisher table is created and every publisher row is *)
(* inserted before the first BibliographicResource row is inserted, so at  *)
(* every point of the run each already-inserted BibliographicResource row  *)
(* whose publisher exists in the publisher input refers to a Publisher row *)
(* that is already inserted.                                               *)
(***************************************************************************)
\* The ids the publisher file gives, as they are stored.
PublisherInputIds ==
    {StoredForText(files["publisher.csv"].rows[k]["id"]) :
        k \in 1..Len(files["publisher.csv"].rows)} \ {NULL}

C27_ParentFirst ==
    (script = "library" /\ "Publisher" \in DOMAIN db.tables) =>
        /\ "BibliographicResource" \in DOMAIN db.tables
        /\ \A a, b \in 1..Len(txn) :
              (a < b /\ txn[a][1] = "BibliographicResource")
                 => txn[b][1] = "BibliographicResource"
        /\ \A k \in 1..Len(VisibleRows("BibliographicResource")) :
              /\ Len(VisibleRows("Publisher")) = Len(files["publisher.csv"].rows)
              /\ VisibleRows("BibliographicResource")[k]["publisher"]
                    \in PublisherInputIds
                 => \E p \in 1..Len(VisibleRows("Publisher")) :
                       VisibleRows("Publisher")[p]["id"]
                          = VisibleRows("BibliographicResource")[k]["publisher"]

\* One BibliographicResource row is inserted and the loop goes on; its
\* publisher is among the two Publisher rows inserted before it.
C27_Witness ==
    /\ script = "library" /\ pc = "insert_biblio" /\ i = 2
    /\ Len(TxnRows("Publisher")) = 2
    /\ TxnRows("BibliographicResource")[1]["publisher"] \in PublisherInputIds

(***************************************************************************)
(* C28.  Every publication of the input ends up in exactly one of the two  *)
(* persisted tables JournalArticle and BookChapter, and every venue in     *)
(* exactly one of Journal and Book: rows(JournalArticle) +                 *)
(* rows(BookChapter) equals the number of publication rows and             *)
(* rows(Journal) + rows(Book) equals the number of venue rows, for every   *)
(* input.                                                                  *)
(***************************************************************************)
C28_EveryRowInOneTable ==
    Written(5) =>
        /\ Len(TableRows("JournalArticle")) + Len(TableRows("BookChapter"))
              = Len(files["01-publications.csv"].rows)
        /\ Len(TableRows("Journal")) + Len(TableRows("Book"))
              = Len(files["01-venues.csv"].rows)

\* The pairs of a row of the given type in the left file and a venue row
\* whose id is the value of the left row's reference column.
PairsOfType(left, type, reference) ==
    {pair \in FileMatches(left, "type", type) \X (1..Len(files["01-venues.csv"].rows)) :
        files["01-venues.csv"].rows[pair[2]]["id"] = files[left].rows[pair[1]][reference]}

\* Every row of the file has one of the two types.
TypesAmong(path, types) ==
    \A k \in 1..Len(files[path].rows) : files[path].rows[k]["type"] \in types

\* C28 as amended: each table holds the rows of its own type only, one row
\* per venue row that carries the referenced id.  A row of another type
\* ('series', 'proceedings paper') is in no table, a publication whose
\* venue id is in no venue row is in no table, and a row whose venue id is
\* carried by two venue rows is in its table twice.  The sums equal the
\* numbers of input rows when every row has one of the two types of its
\* kind, venue ids are unique and every publication names an existing venue.
C28_RowsOfEachType ==
    Written(5) =>
        /\ Len(TableRows("JournalArticle"))
              = Cardinality(PairsOfType("01-publications.csv", "journal article",
                                        "publication venue"))
        /\ Len(TableRows("BookChapter"))
              = Cardinality(PairsOfType("01-publications.csv", "book chapter",
                                        "publication venue"))
        /\ Len(TableRows("Journal"))
              = Cardinality(PairsOfType("01-venues.csv", "journal", "id"))
        /\ Len(TableRows("Book"))
              = Cardinality(PairsOfType("01-venues.csv", "book", "id"))
        /\ (/\ TypesAmong("01-publications.csv", {"journal article", "book chapter"})
            /\ TypesAmong("01-venues.csv", {"journal", "book"})
            /\ EachMatchesOne("01-venues.csv", "id", "01-venues.csv")
            /\ EachMatchesOne("01-publications.csv", "publication venue",
                              "01-venues.csv"))
              => /\ Len(TableRows("JournalArticle")) + Len(TableRows("BookChapter"))
                       = Len(files["01-publications.csv"].rows)
                 /\ Len(TableRows("Journal")) + Len(TableRows("Book"))
                       = Len(files["01-venues.csv"].rows)

\* A 'series' venue and a 'proceedings paper' are in no table.
C28_Witness ==
    /\ Written(5) /\ pc = "done"
    /\ ~TypesAmong("01-publications.csv", {"journal article", "book chapter"})
    /\ ~TypesAmong("01-venues.csv", {"journal", "book"})
    /\ Len(files["01-publications.csv"].rows) = 2
    /\ Len(TableRows("JournalArticle")) + Len(TableRows("BookChapter")) = 1

\* Every row has a type of its kind and a unique match: the sums are the
\* numbers of input rows.
C28_WitnessPartition ==
    /\ Written(5) /\ pc = "done"
    /\ TypesAmong("01-publications.csv", {"journal article", "book chapter"})
    /\ TypesAmong("01-venues.csv", {"journal", "book"})
    /\ EachMatchesOne("01-publications.csv", "publication venue", "01-venues.csv")
    /\ Len(TableRows("JournalArticle")) = 1 /\ Len(TableRows("BookChapter")) = 1
    /\ Len(TableRows("Journal")) = 1 /\ Len(TableRows("Book")) = 1

(***************************************************************************)
(* C29.  During the graph upload the statements sent to the triplestore    *)
(* are at every step statements of the in-memory graph, each statement is  *)
(* sent exactly once, when the loop completes the uploaded set equals the  *)
(* in-memory graph, and the store is closed only after the last statement  *)
(* has been sent.                                                          *)
(***************************************************************************)
\* The positions of the store.add requests of this run that were answered.
Adds == {k \in DOMAIN connection : connection[k] = "add"}

\* The statements those requests carried: the loop hands out my_graph in order.
Sent == {my_graph[k] : k \in 1..Min(Cardinality(Adds), Len(my_graph))}

C29_UploadStatementByStatement ==
    (script = "graph" /\ connection # <<>>) =>
        LET held == Range(my_graph)
        IN  /\ Cardinality(Adds) <= Len(my_graph)
            /\ Sent \subseteq triplestore
            /\ triplestore \subseteq held
            /\ Cardinality(Sent) = Cardinality(Adds)
            /\ pc = "upload" => Cardinality(Adds) = i - 1
            /\ pc \in {"store_close", "done"} =>
                   /\ Sent = held
                   /\ triplestore = held
            /\ \A k \in DOMAIN connection :
                   connection[k] = "close" =>
                       /\ k = Len(connection)
                       /\ Cardinality(Adds) = Len(my_graph)
                       /\ Sent = held

C29_Witness ==
    /\ script = "graph" /\ ~rerun /\ pc = "done"
    /\ Len(my_graph) >= 2
    /\ connection[Len(connection)] = "close"
    /\ triplestore = Range(my_graph)

C29_WitnessDuring ==
    /\ script = "graph" /\ ~rerun /\ pc = "upload"
    /\ i >= 2
    /\ triplestore # {} /\ triplestore # Range(my_graph)

C29_WitnessRefused ==
    /\ script = "graph" /\ pc = "error" /\ error = "URLError"
    /\ Adds # {}
    /\ "close" \notin Range(connection)

====
